---- MODULE Spec2Model ----
(***************************************************************************)
(* StudyEZ gamification core: the Streak Engine (StreakManager) over its   *)
(* localStorage record.                                                    *)
(*                                                                         *)
(* The persisted record lives under one localStorage key.  It is modelled  *)
(* as a sequence of length 0 (key absent) or 1 (the JSON object).  A JSON  *)
(* object is a TLA+ record whose DOMAIN is the set of keys it holds, so a  *)
(* payload that lacks a key is a record without that field.                *)
(* JSON.stringify / JSON.parse of a record of integers, booleans and date  *)
(* strings is exact, so the stored object is the object that was saved.    *)
(*                                                                         *)
(* A date string (Date.toDateString) names a calendar day: it is modelled  *)
(* as <<>> for the empty string and <<d>> for day number d.  The clock     *)
(* counts ticks of 1/TicksPerDay of a day, so that formatting a date drops *)
(* the time of day and parsing it back yields that day's midnight.         *)
(***************************************************************************)
EXTENDS Integers, Sequences, FiniteSets, TLC

VARIABLES
    storage,    \* localStorage[STORAGE_KEY]: <<>> when absent, else <<object>>
    clock,      \* the current time, in ticks
    call,       \* the last completed StreakManager call: arguments, state read, result
    run,        \* history: correct answers recorded in a row since an Idle state with no correct answers
    maxSeen,    \* history: largest persisted currentStreak since the record was last recreated
    maxEver,    \* history: largest persisted currentStreak ever
    imported,   \* history: an import has written the record since it was last recreated
    leaderboardStorage, \* the stored leaderboard: <<>> when absent, else <<array of entries>>
    nameStorage,        \* localStorage[PLAYER_NAME_KEY]: <<>> when absent, else <<name>>
    lbCall,             \* the last completed LeaderboardManager call: arguments, roster read, result
    currentStreakData,  \* StudyEZApp.currentStreakData: the app's in-memory copy of the record
    session,            \* QuizManager.state and the quiz screen's buttons
    tabs,               \* per browser tab: the updateLeaderboard call it is running
    shown               \* what the last message or result function returned

streakVars == <<storage, clock, call, run, maxSeen, maxEver, imported>>

leaderboardVars == <<leaderboardStorage, nameStorage, lbCall>>

appVars == <<currentStreakData, session, tabs, shown>>

vars == <<storage, clock, call, run, maxSeen, maxEver, imported,
          leaderboardStorage, nameStorage, lbCall, currentStreakData, session,
          tabs, shown>>

----------------------------------------------------------------------------
(* Bounds of the model *)

\* consecutiveCorrectAnswers is not driven beyond this
MaxStreak == 5
\* totalPoints is not driven beyond this
MaxPoints == 3
\* totalQuizzesTaken is not driven beyond this
MaxQuizzes == 2
\* the clock stops here
MaxClock == 2
\* ticks in one day
TicksPerDay == 2

(* Program constants *)

\* consecutive correct answers that start a streak
StreakThreshold == 3

----------------------------------------------------------------------------
(* Helpers *)

Max(a, b) == IF a >= b THEN a ELSE b

\* new Date().toDateString(): the calendar day of the current time
toDateString(t) == <<t \div TicksPerDay>>

\* new Date(dateString).getTime(): local midnight of that day, in ticks
ParseDate(s) == s[1] * TicksPerDay

\* parsed.key || fallback, for values of the right primitive kind:
\* a missing key reads undefined, and 0, '' and false are their own fallbacks
OrDefault(parsed, key, fallback) ==
    IF key \in DOMAIN parsed THEN parsed[key] ELSE fallback

defaultData ==
    [ currentStreak             |-> 0,
      longestStreak             |-> 0,
      lastQuizDate              |-> <<>>,
      totalQuizzesPassed        |-> 0,
      totalQuizzesTaken         |-> 0,
      totalPoints               |-> 0,
      consecutiveCorrectAnswers |-> 0,
      isInStreak                |-> FALSE ]

\* stores whose read does not give a parsed object: getItem throws, the text
\* is not JSON, the text is the JSON null (parsed.currentStreak throws) and
\* the empty text (!raw)
Inaccessible == <<[unreadable |-> "SecurityError"]>>
Unparseable == <<[unreadable |-> "{not json"]>>
JsonNull == <<[unreadable |-> "null"]>>
EmptyText == <<[unreadable |-> ""]>>

FaultyStores == {Inaccessible, Unparseable, JsonNull, EmptyText}

getStreakData(raw) ==
    IF raw = <<>> \/ raw = EmptyText
    THEN defaultData
    ELSE IF raw \in {Inaccessible, Unparseable, JsonNull}
    THEN defaultData
    ELSE LET parsed == raw[1] IN
         [ currentStreak             |-> OrDefault(parsed, "currentStreak", 0),
           longestStreak             |-> OrDefault(parsed, "longestStreak", 0),
           lastQuizDate              |-> OrDefault(parsed, "lastQuizDate", <<>>),
           totalQuizzesPassed        |-> OrDefault(parsed, "totalQuizzesPassed", 0),
           totalQuizzesTaken         |-> OrDefault(parsed, "totalQuizzesTaken", 0),
           totalPoints               |-> OrDefault(parsed, "totalPoints", 0),
           consecutiveCorrectAnswers |-> OrDefault(parsed, "consecutiveCorrectAnswers", 0),
           isInStreak                |-> OrDefault(parsed, "isInStreak", FALSE) ]

\* localStorage.setItem inside try/catch: a failed write is logged and swallowed
\* variant: a failed write removes the stored record
saveStreakData_ClearsOnFailure(raw, data, ok) == IF ok THEN <<data>> ELSE <<>>

saveStreakData(raw, data, ok) == IF ok THEN <<data>> ELSE raw

----------------------------------------------------------------------------
(* StreakManager.updateStreakForAnswer, the computation between read and save *)

\* variant: the streak starts one answer late (> for >=)
ActivateStreak_Late(d) ==
    IF d.consecutiveCorrectAnswers > StreakThreshold /\ ~d.isInStreak
    THEN [d EXCEPT !.isInStreak = TRUE,
                   !.currentStreak = d.consecutiveCorrectAnswers]
    ELSE d

\* reaching the threshold outside a streak starts one
ActivateStreak(d) ==
    IF d.consecutiveCorrectAnswers >= StreakThreshold /\ ~d.isInStreak
    THEN [d EXCEPT !.isInStreak = TRUE,
                   !.currentStreak = d.consecutiveCorrectAnswers]
    ELSE d

\* variant: the longest streak is overwritten without the comparison
UpdateLongest_Always(d) == [d EXCEPT !.longestStreak = d.currentStreak]

\* the longest streak follows the current one upwards
UpdateLongest(d) ==
    IF d.currentStreak > d.longestStreak
    THEN [d EXCEPT !.longestStreak = d.currentStreak]
    ELSE d

\* variant: the answer that starts the streak earns nothing
ContinueStreak_NoPointOnStart(d) ==
    IF d.isInStreak
    THEN IF d.consecutiveCorrectAnswers > StreakThreshold
         THEN [ data |-> UpdateLongest([d EXCEPT !.currentStreak = d.consecutiveCorrectAnswers,
                                                 !.totalPoints = @ + 1]),
                pointsEarned |-> 1 ]
         ELSE [ data |-> UpdateLongest([d EXCEPT !.currentStreak = d.consecutiveCorrectAnswers]),
                pointsEarned |-> 0 ]
    ELSE [ data |-> d, pointsEarned |-> 0 ]

\* variant: the current streak is counted up from its own value
ContinueStreak_FromCurrent(d) ==
    IF d.isInStreak
    THEN [ data |-> UpdateLongest([d EXCEPT !.currentStreak = @ + 1,
                                            !.totalPoints = @ + 1]),
           pointsEarned |-> 1 ]
    ELSE [ data |-> d, pointsEarned |-> 0 ]

\* in a streak every correct answer earns one point
ContinueStreak(d) ==
    IF d.isInStreak
    THEN [ data |-> UpdateLongest([d EXCEPT !.currentStreak = d.consecutiveCorrectAnswers,
                                            !.totalPoints = @ + 1]),
           pointsEarned |-> 1 ]
    ELSE [ data |-> d, pointsEarned |-> 0 ]

\* variant: the points are settled before the threshold is looked at
CorrectAnswer_ActivateLast(d) ==
    LET settled == ContinueStreak([d EXCEPT !.consecutiveCorrectAnswers = @ + 1])
    IN  [settled EXCEPT !.data = ActivateStreak(settled.data)]

CorrectAnswer(d) ==
    ContinueStreak(ActivateStreak([d EXCEPT !.consecutiveCorrectAnswers = @ + 1]))

\* variant: "reset everything" also resets the points
WrongAnswer_LosesPoints(d) ==
    [ data |-> [d EXCEPT !.consecutiveCorrectAnswers = 0,
                         !.currentStreak = 0,
                         !.isInStreak = FALSE,
                         !.totalPoints = 0],
      pointsEarned |-> 0 ]

\* variant: the streak flag is not cleared
WrongAnswer_StaysInStreak(d) ==
    [ data |-> [d EXCEPT !.consecutiveCorrectAnswers = 0,
                         !.currentStreak = 0],
      pointsEarned |-> 0 ]

\* variant: the longest streak is cleared with the current one
WrongAnswer_ClearsLongest(d) ==
    [ data |-> [d EXCEPT !.consecutiveCorrectAnswers = 0,
                         !.currentStreak = 0,
                         !.longestStreak = 0,
                         !.isInStreak = FALSE],
      pointsEarned |-> 0 ]

WrongAnswer(d) ==
    [ data |-> [d EXCEPT !.consecutiveCorrectAnswers = 0,
                         !.currentStreak = 0,
                         !.isInStreak = FALSE],
      pointsEarned |-> 0 ]

StreakForAnswer(d, isCorrect) ==
    IF isCorrect THEN CorrectAnswer(d) ELSE WrongAnswer(d)

\* variant: a failed quiz ends the streak
QuizStats_FailEndsStreak(d, passed, now) ==
    [d EXCEPT !.totalQuizzesTaken = @ + 1,
              !.totalQuizzesPassed = IF passed THEN @ + 1 ELSE @,
              !.currentStreak = IF passed THEN @ ELSE 0,
              !.lastQuizDate = toDateString(now)]

\* variant: a quiz is counted as taken only when it was failed
QuizStats_TakenOnFail(d, passed, now) ==
    [d EXCEPT !.totalQuizzesTaken = IF passed THEN @ ELSE @ + 1,
              !.totalQuizzesPassed = IF passed THEN @ + 1 ELSE @,
              !.lastQuizDate = toDateString(now)]

(* StreakManager.updateQuizStats, the computation between read and save *)
QuizStats(d, passed, now) ==
    [d EXCEPT !.totalQuizzesTaken = @ + 1,
              !.totalQuizzesPassed = IF passed THEN @ + 1 ELSE @,
              !.lastQuizDate = toDateString(now)]

(* StreakManager.resetStreak: the record it writes *)
resetData ==
    [ currentStreak             |-> 0,
      longestStreak             |-> 0,
      lastQuizDate              |-> <<>>,
      totalQuizzesPassed        |-> 0,
      totalQuizzesTaken         |-> 0,
      totalPoints               |-> 0,
      consecutiveCorrectAnswers |-> 0,
      isInStreak                |-> FALSE ]

(* StreakManager.checkStreakExpiry *)
daysDifference(d, now) == (now - ParseDate(d.lastQuizDate)) \div TicksPerDay

\* variant: a difference equal to the limit already expires (>= for >)
StreakExpires_AtLimit(d, maxDaysInactive, now) ==
    IF d.lastQuizDate = <<>> \/ d.currentStreak = 0
    THEN FALSE
    ELSE daysDifference(d, now) >= maxDaysInactive

StreakExpires(d, maxDaysInactive, now) ==
    IF d.lastQuizDate = <<>> \/ d.currentStreak = 0
    THEN FALSE
    ELSE daysDifference(d, now) > maxDaysInactive

\* variant: expiry is a full reset of the streak
ExpiredData_FullReset(d) ==
    [d EXCEPT !.currentStreak = 0,
              !.consecutiveCorrectAnswers = 0,
              !.isInStreak = FALSE]

ExpiredData(d) == [d EXCEPT !.currentStreak = 0]

(* StreakManager.importStreakData *)

\* The text handed to importStreakData.  parses: JSON.parse succeeds;
\* kinds: typeof of each validated field of the parsed object ("undefined"
\* for a missing key); data: the parsed object, which is what gets saved.
ImportPayloads ==
    { \* not JSON
      [ parses |-> FALSE,
        kinds  |-> [currentStreak |-> "undefined", longestStreak |-> "undefined",
                    lastQuizDate |-> "undefined", totalQuizzesPassed |-> "undefined",
                    totalQuizzesTaken |-> "undefined"],
        data   |-> [currentStreak |-> 0] ],
      \* longestStreak is missing
      [ parses |-> TRUE,
        kinds  |-> [currentStreak |-> "number", longestStreak |-> "undefined",
                    lastQuizDate |-> "string", totalQuizzesPassed |-> "number",
                    totalQuizzesTaken |-> "number"],
        data   |-> [currentStreak |-> 1, lastQuizDate |-> <<>>,
                    totalQuizzesPassed |-> 0, totalQuizzesTaken |-> 1] ],
      \* lastQuizDate is a number
      [ parses |-> TRUE,
        kinds  |-> [currentStreak |-> "number", longestStreak |-> "number",
                    lastQuizDate |-> "number", totalQuizzesPassed |-> "number",
                    totalQuizzesTaken |-> "number"],
        data   |-> [currentStreak |-> 1, longestStreak |-> 1, lastQuizDate |-> 0,
                    totalQuizzesPassed |-> 0, totalQuizzesTaken |-> 1] ],
      \* a backup written by exportStreakData
      [ parses |-> TRUE,
        kinds  |-> [currentStreak |-> "number", longestStreak |-> "number",
                    lastQuizDate |-> "string", totalQuizzesPassed |-> "number",
                    totalQuizzesTaken |-> "number"],
        data   |-> [currentStreak |-> 3, longestStreak |-> 4, lastQuizDate |-> <<0>>,
                    totalQuizzesPassed |-> 1, totalQuizzesTaken |-> 2,
                    totalPoints |-> 3, consecutiveCorrectAnswers |-> 3,
                    isInStreak |-> TRUE] ],
      \* only the five validated fields, with values no run of the engine produces
      [ parses |-> TRUE,
        kinds  |-> [currentStreak |-> "number", longestStreak |-> "number",
                    lastQuizDate |-> "string", totalQuizzesPassed |-> "number",
                    totalQuizzesTaken |-> "number"],
        data   |-> [currentStreak |-> 2, longestStreak |-> 1, lastQuizDate |-> <<>>,
                    totalQuizzesPassed |-> 2, totalQuizzesTaken |-> 1] ] }

\* the typeof each validated field must have
RequiredKinds ==
    [ currentStreak |-> "number", longestStreak |-> "number",
      lastQuizDate |-> "string", totalQuizzesPassed |-> "number",
      totalQuizzesTaken |-> "number" ]

RequiredFields == DOMAIN RequiredKinds

\* typeof of a missing key and of a null or nested value
Kinds == {"undefined", "object"}

\* parsed objects in which one validated field is missing or of another kind
MistypedPayloads ==
    { [ parses |-> TRUE,
        kinds  |-> [RequiredKinds EXCEPT ![f] = k],
        data   |-> [currentStreak |-> 3, longestStreak |-> 4, lastQuizDate |-> <<0>>,
                    totalQuizzesPassed |-> 1, totalQuizzesTaken |-> 2,
                    totalPoints |-> 3, consecutiveCorrectAnswers |-> 3,
                    isInStreak |-> TRUE] ] :
      f \in RequiredFields, k \in Kinds }
    \cup
    { [ parses |-> TRUE,
        kinds  |-> [RequiredKinds EXCEPT ![f] = IF @ = "number" THEN "string" ELSE "number"],
        data   |-> [currentStreak |-> 3, longestStreak |-> 4, lastQuizDate |-> <<0>>,
                    totalQuizzesPassed |-> 1, totalQuizzesTaken |-> 2,
                    totalPoints |-> 3, consecutiveCorrectAnswers |-> 3,
                    isInStreak |-> TRUE] ] :
      f \in RequiredFields }

\* variant: the kind of lastQuizDate is not looked at
ValidStructure_AnyDate(payload) ==
    /\ payload.parses
    /\ payload.kinds.currentStreak = "number"
    /\ payload.kinds.longestStreak = "number"
    /\ payload.kinds.totalQuizzesPassed = "number"
    /\ payload.kinds.totalQuizzesTaken = "number"

ValidStructure(payload) ==
    /\ payload.parses
    /\ payload.kinds.currentStreak = "number"
    /\ payload.kinds.longestStreak = "number"
    /\ payload.kinds.lastQuizDate = "string"
    /\ payload.kinds.totalQuizzesPassed = "number"
    /\ payload.kinds.totalQuizzesTaken = "number"

----------------------------------------------------------------------------
(* History of calls *)

\* no run of correct answers is being followed
NoRun == [n |-> -1, start |-> defaultData]

NoCall ==
    [ op           |-> "none",
      isCorrect    |-> FALSE,
      passed       |-> FALSE,
      before       |-> defaultData,   \* the record as read before the call
      data         |-> defaultData,   \* the StreakData the call returned
      pointsEarned |-> 0,             \* the pointsEarned the call returned
      result       |-> FALSE,         \* the boolean the call returned
      maxDaysInactive |-> 0,          \* the limit checkStreakExpiry was called with
      now          |-> 0,             \* the clock when checkStreakExpiry was called
      runBefore    |-> NoRun ]        \* run before the call

\* Idle with no correct answer counted yet
IdleZero(d) ==
    ~d.isInStreak /\ d.consecutiveCorrectAnswers = 0 /\ d.currentStreak = 0

NextRun(r, after, correctAnswer) ==
    IF IdleZero(after) THEN [n |-> 0, start |-> after]
    ELSE IF correctAnswer /\ r.n >= 0 THEN [r EXCEPT !.n = @ + 1]
    ELSE NoRun

\* the history variables after a call that left newStorage behind
Observe(newStorage, correctAnswer, recreated, written) ==
    LET after == getStreakData(newStorage) IN
    /\ run' = NextRun(run, after, correctAnswer)
    /\ maxSeen' = IF recreated THEN after.currentStreak
                  ELSE Max(maxSeen, after.currentStreak)
    /\ maxEver' = Max(maxEver, after.currentStreak)
    /\ imported' = IF recreated THEN FALSE ELSE (imported \/ written)

----------------------------------------------------------------------------
(* LeaderboardManager: the computations on the roster *)

\* entries kept by updateLeaderboard
Capacity == 100

Min(a, b) == IF a <= b THEN a ELSE b

\* the name used when none is stored
AnonymousPlayer == "Anonymous Player"

\* name || 'Anonymous Player': an absent and an empty name are both falsy
getPlayerName(rawName) ==
    IF rawName = <<>> \/ rawName[1] = "" THEN AnonymousPlayer ELSE rawName[1]

\* the stored array, empty when nothing is stored
loadLeaderboard(raw) == IF raw = <<>> THEN <<>> ELSE raw[1]

saveLeaderboard(entries) == <<entries>>

clearLeaderboardStorage == <<>>

\* Array.prototype.slice(start, end): 0-based, half-open, a negative index
\* counts from the end, both clipped to the array
RelativeIndex(i, len) == IF i < 0 THEN Max(len + i, 0) ELSE Min(i, len)

Slice(s, start, end) ==
    LET from == RelativeIndex(start, Len(s))
        to   == RelativeIndex(end, Len(s))
    IN  IF from >= to THEN <<>> ELSE SubSeq(s, from + 1, to)

\* leaderboard.find(entry => entry.playerName === playerName): the index of
\* the first match, 0 when there is none
FindPlayer(lb, playerName) ==
    IF \E i \in 1..Len(lb) : lb[i].playerName = playerName
    THEN CHOOSE i \in 1..Len(lb) :
             /\ lb[i].playerName = playerName
             /\ \A k \in 1..(i - 1) : lb[k].playerName # playerName
    ELSE 0

\* variant: the comparator stops at the second key
Compare_TwoKeys(a, b) ==
    IF b.totalPoints = a.totalPoints
    THEN b.longestStreak - a.longestStreak
    ELSE b.totalPoints - a.totalPoints

\* the comparator handed to sort: negative when a goes first
Compare(a, b) ==
    IF b.totalPoints = a.totalPoints
    THEN IF b.longestStreak = a.longestStreak
         THEN b.totalQuizzesPassed - a.totalQuizzesPassed
         ELSE b.longestStreak - a.longestStreak
    ELSE b.totalPoints - a.totalPoints

\* variant: a sort that puts the later of two tied elements first
SortsBefore_TiesReversed(s, k, j) ==
    \/ Compare(s[k], s[j]) < 0
    \/ Compare(s[k], s[j]) = 0 /\ k > j

\* Array.prototype.sort is stable: the element at k ends before the one at j
\* when the comparator puts it first, or ties and k < j
SortsBefore(s, k, j) ==
    \/ Compare(s[k], s[j]) < 0
    \/ Compare(s[k], s[j]) = 0 /\ k < j

\* the 1-based place of each element after the sort, as a tuple
SortedPositions(s) ==
    SubSeq([j \in 1..Len(s) |->
               1 + Cardinality({k \in 1..Len(s) : SortsBefore(s, k, j)})],
           1, Len(s))

Sort(s) ==
    LET position == SortedPositions(s)
    IN  SubSeq([i \in 1..Len(s) |-> s[CHOOSE j \in 1..Len(s) : position[j] = i]],
               1, Len(s))

\* variant: entry.rank = index
UpdateRanks_FromZero(s) == [i \in 1..Len(s) |-> [s[i] EXCEPT !.rank = i - 1]]

\* entry.rank = index + 1
UpdateRanks(s) == [i \in 1..Len(s) |-> [s[i] EXCEPT !.rank = i]]

\* the new entry of a player the roster does not hold
NewEntry(playerName, streakData, now) ==
    [ playerName         |-> playerName,
      totalPoints        |-> streakData.totalPoints,
      longestStreak      |-> streakData.longestStreak,
      totalQuizzesPassed |-> streakData.totalQuizzesPassed,
      lastActive         |-> now,
      rank               |-> 0 ]

\* variant: the entry is pushed whether or not the player was found
WithPlayer_AlwaysPushes(lb, playerName, streakData, now) ==
    Append(lb, NewEntry(playerName, streakData, now))

\* the array after the find / update-or-push step
WithPlayer(lb, playerName, streakData, now) ==
    LET i == FindPlayer(lb, playerName) IN
    IF i # 0
    THEN [lb EXCEPT ![i] = [@ EXCEPT !.totalPoints = streakData.totalPoints,
                                     !.longestStreak = streakData.longestStreak,
                                     !.totalQuizzesPassed = streakData.totalQuizzesPassed,
                                     !.lastActive = now]]
    ELSE Append(lb, NewEntry(playerName, streakData, now))

\* the array after sort and re-rank
SortedEntries(lb, playerName, streakData, now) ==
    UpdateRanks(Sort(WithPlayer(lb, playerName, streakData, now)))

\* variant: the cut keeps one entry too few
TopEntries_OneLess(sorted) == Slice(sorted, 0, Capacity - 1)

\* variant: the cut keeps one entry too many
TopEntries_OneMore(sorted) == Slice(sorted, 0, Capacity + 1)

\* leaderboard.slice(0, 100): what updateLeaderboard saves
TopEntries(sorted) == Slice(sorted, 0, Capacity)

\* variant: the start index is not clamped at 0
PlayersAroundRank_NoClamp(lb, playerRank, range) ==
    Slice(lb, playerRank - range - 1, Min(Len(lb), playerRank + range))

\* variant: the window ends one entry earlier
PlayersAroundRank_OneShort(lb, playerRank, range) ==
    Slice(lb, Max(0, playerRank - range - 1), Min(Len(lb), playerRank + range - 1))

\* variant: an unranked player gets no entries
PlayersAroundRank_UnrankedEmpty(lb, playerRank, range) ==
    IF playerRank = 0
    THEN <<>>
    ELSE Slice(lb, Max(0, playerRank - range - 1), Min(Len(lb), playerRank + range))

PlayersAroundRank(lb, playerRank, range) ==
    LET startIndex == Max(0, playerRank - range - 1)
        endIndex   == Min(Len(lb), playerRank + range)
    IN  Slice(lb, startIndex, endIndex)

TopPlayers(lb, limit) == Slice(lb, 0, limit)

\* variant: the 0-based index is returned instead of the stored rank
CurrentPlayerRank_ZeroBased(lb, playerName) ==
    LET i == FindPlayer(lb, playerName) IN
    IF i # 0 THEN lb[i].rank - 1 ELSE 0

CurrentPlayerRank(lb, playerName) ==
    LET i == FindPlayer(lb, playerName) IN
    IF i # 0 THEN lb[i].rank ELSE 0

sampleData ==
    << [playerName |-> "Quiz Master", totalPoints |-> 150, longestStreak |-> 25, totalQuizzesPassed |-> 20, lastActive |-> 0, rank |-> 1],
       [playerName |-> "Study Pro", totalPoints |-> 128, longestStreak |-> 18, totalQuizzesPassed |-> 16, lastActive |-> 0, rank |-> 2],
       [playerName |-> "Brain Trainer", totalPoints |-> 95, longestStreak |-> 15, totalQuizzesPassed |-> 12, lastActive |-> 0, rank |-> 3],
       [playerName |-> "Knowledge Seeker", totalPoints |-> 87, longestStreak |-> 12, totalQuizzesPassed |-> 11, lastActive |-> 0, rank |-> 4],
       [playerName |-> "Learner123", totalPoints |-> 76, longestStreak |-> 10, totalQuizzesPassed |-> 9, lastActive |-> 0, rank |-> 5],
       [playerName |-> "Code Ninja", totalPoints |-> 65, longestStreak |-> 8, totalQuizzesPassed |-> 8, lastActive |-> 0, rank |-> 6],
       [playerName |-> "Tech Student", totalPoints |-> 54, longestStreak |-> 7, totalQuizzesPassed |-> 7, lastActive |-> 0, rank |-> 7],
       [playerName |-> "Rookie Dev", totalPoints |-> 43, longestStreak |-> 6, totalQuizzesPassed |-> 6, lastActive |-> 0, rank |-> 8],
       [playerName |-> "Future Coder", totalPoints |-> 32, longestStreak |-> 5, totalQuizzesPassed |-> 5, lastActive |-> 0, rank |-> 9],
       [playerName |-> "Beginner", totalPoints |-> 21, longestStreak |-> 4, totalQuizzesPassed |-> 4, lastActive |-> 0, rank |-> 10] >>

\* QuizManager's state before any quiz is started, the screen shown and the
\* three buttons of the quiz screen. currentQuiz is the number of questions of
\* the quiz (0 for null); userAnswers[q] tells whether question q has no
\* answer, the correct one or another one
NoSession ==
    [ currentQuiz          |-> 0,
      passingScore         |-> 0,
      currentQuestionIndex |-> 0,
      userAnswers          |-> <<>>,
      isCompleted          |-> FALSE,
      passed               |-> FALSE,   \* currentResult.passed
      screen               |-> "home",
      prevDisabled         |-> FALSE,
      nextDisabled         |-> FALSE,
      nextShown            |-> TRUE,
      submitDisabled       |-> FALSE,
      submitShown          |-> TRUE,
      totalPointsEarned    |-> 0,       \* StudyEZApp.totalPointsEarned
      pointsShown          |-> 0,       \* the points named on the results screen while it is up
      answersSent          |-> 0,       \* history: updateStreakForAnswer calls of this attempt
      pointsSinceStart     |-> 0 ]      \* history: pointsEarned returned to this attempt

NoLbCall ==
    [ op         |-> "none",
      playerName |-> "",      \* the name the call resolved
      streakData |-> defaultData, \* updateLeaderboard: its argument
      before     |-> <<>>,    \* the roster as loaded by the call
      sorted     |-> <<>>,    \* updateLeaderboard: the array after sort and re-rank, before the cut
      playerRank |-> 0,       \* getPlayersAroundRank: its arguments
      range      |-> 0,
      limit      |-> 0,       \* getTopPlayers: its argument
      entries    |-> <<>>,    \* the entries a query returned
      rank       |-> 0 ]      \* the rank getCurrentPlayerRank returned

----------------------------------------------------------------------------
(* The state after loading the page with an empty store *)

\* no message or result has been asked for
NothingShown == [op |-> "none"]

\* the tabs that have the app open
Tabs == {1, 2}

\* a tab that is not inside updateLeaderboard.  pc: "loaded" between the
\* loadLeaderboard and the saveLeaderboard of a call; playerName, streakData,
\* leaderboard: the call's locals; the other fields are history
IdleTab ==
    [ pc         |-> "idle",
      playerName |-> "",
      streakData |-> defaultData,
      leaderboard |-> <<>>,
      calls      |-> 0,       \* history: the calls this tab has started
      stale      |-> FALSE,   \* another tab has saved since this call loaded
      wrote      |-> {},      \* the names this tab's completed calls recorded
      savedStale |-> FALSE ]  \* a call of this tab saved a roster that was stale

NoTabs == [t \in Tabs |-> IdleTab]

Init ==
    /\ storage = <<>>
    /\ clock = 0
    /\ call = NoCall
    /\ run = [n |-> 0, start |-> defaultData]
    /\ maxSeen = 0
    /\ maxEver = 0
    /\ imported = FALSE
    /\ leaderboardStorage = <<>>
    /\ nameStorage = <<>>
    /\ lbCall = NoLbCall
    /\ currentStreakData = defaultData
    /\ session = NoSession
    /\ tabs = NoTabs
    /\ shown = NothingShown

\* the record a read of the store returns now
persisted == getStreakData(storage)

(* The public operations of StreakManager; ok: localStorage.setItem succeeds *)

\* variant: the answer is dropped when the stored record could not be read
updateStreakForAnswer_SkipsUnreadable(isCorrect, ok) ==
    LET currentData == getStreakData(storage)
        update == IF storage \in FaultyStores
                  THEN [data |-> currentData, pointsEarned |-> 0]
                  ELSE StreakForAnswer(currentData, isCorrect)
        saved == saveStreakData(storage, update.data, ok)
    IN  /\ isCorrect => /\ currentData.consecutiveCorrectAnswers < MaxStreak
                        /\ currentData.totalPoints < MaxPoints
        /\ storage' = saved
        /\ call' = [NoCall EXCEPT !.op = "updateStreakForAnswer",
                                  !.isCorrect = isCorrect,
                                  !.before = currentData,
                                  !.data = update.data,
                                  !.pointsEarned = update.pointsEarned,
                                  !.runBefore = run]
        /\ Observe(saved, isCorrect /\ ok, FALSE, FALSE)
        /\ UNCHANGED <<clock, leaderboardVars, appVars>>

updateStreakForAnswer(isCorrect, ok) ==
    LET currentData == getStreakData(storage)
        update == StreakForAnswer(currentData, isCorrect)
        saved == saveStreakData(storage, update.data, ok)
    IN  /\ isCorrect => /\ currentData.consecutiveCorrectAnswers < MaxStreak
                        /\ currentData.totalPoints < MaxPoints
        /\ storage' = saved
        /\ call' = [NoCall EXCEPT !.op = "updateStreakForAnswer",
                                  !.isCorrect = isCorrect,
                                  !.before = currentData,
                                  !.data = update.data,
                                  !.pointsEarned = update.pointsEarned,
                                  !.runBefore = run]
        /\ Observe(saved, isCorrect /\ ok, FALSE, FALSE)
        /\ UNCHANGED <<clock, leaderboardVars, appVars>>

updateQuizStats(passed, ok) ==
    LET currentData == getStreakData(storage)
        updated == QuizStats(currentData, passed, clock)
        saved == saveStreakData(storage, updated, ok)
    IN  /\ currentData.totalQuizzesTaken < MaxQuizzes
        /\ storage' = saved
        /\ call' = [NoCall EXCEPT !.op = "updateQuizStats",
                                  !.passed = passed,
                                  !.before = currentData,
                                  !.data = updated,
                                  !.runBefore = run]
        /\ Observe(saved, FALSE, FALSE, FALSE)
        /\ UNCHANGED <<clock, leaderboardVars, appVars>>

\* variant: the defaults are returned but never saved
resetStreak_NoSave(ok) ==
    /\ storage' = storage
    /\ call' = [NoCall EXCEPT !.op = "resetStreak",
                              !.before = getStreakData(storage),
                              !.data = resetData,
                              !.runBefore = run]
    /\ Observe(storage, FALSE, FALSE, FALSE)
    /\ UNCHANGED <<clock, leaderboardVars, appVars>>

resetStreak(ok) ==
    LET saved == saveStreakData(storage, resetData, ok)
    IN  /\ storage' = saved
        /\ call' = [NoCall EXCEPT !.op = "resetStreak",
                                  !.before = getStreakData(storage),
                                  !.data = resetData,
                                  !.runBefore = run]
        /\ Observe(saved, FALSE, ok, FALSE)
        /\ UNCHANGED <<clock, leaderboardVars, appVars>>

checkStreakExpiry(maxDaysInactive, ok) ==
    LET streakData == getStreakData(storage)
        expires == StreakExpires(streakData, maxDaysInactive, clock)
        saved == IF expires
                 THEN saveStreakData(storage, ExpiredData(streakData), ok)
                 ELSE storage
    IN  /\ storage' = saved
        /\ call' = [NoCall EXCEPT !.op = "checkStreakExpiry",
                                  !.before = streakData,
                                  !.result = expires,
                                  !.maxDaysInactive = maxDaysInactive,
                                  !.now = clock,
                                  !.runBefore = run]
        /\ Observe(saved, FALSE, FALSE, FALSE)
        /\ UNCHANGED <<clock, leaderboardVars, appVars>>

importStreakData(payload, ok) ==
    LET valid == ValidStructure(payload)
        saved == IF valid
                 THEN saveStreakData(storage, payload.data, ok)
                 ELSE storage
    IN  /\ storage' = saved
        /\ call' = [NoCall EXCEPT !.op = "importStreakData",
                                  !.before = getStreakData(storage),
                                  !.result = valid,
                                  !.runBefore = run]
        /\ Observe(saved, FALSE, FALSE, valid /\ ok)
        /\ UNCHANGED <<clock, leaderboardVars, appVars>>

\* time passes between calls
Tick ==
    /\ clock < MaxClock
    /\ clock' = clock + 1
    /\ UNCHANGED <<storage, call, run, maxSeen, maxEver, imported, leaderboardVars, appVars>>

\* the values checkStreakExpiry is called with
ExpiryLimits == {0, 1}

Next ==
    \/ \E isCorrect \in BOOLEAN : updateStreakForAnswer(isCorrect, TRUE)
    \/ \E passed \in BOOLEAN : updateQuizStats(passed, TRUE)
    \/ resetStreak(TRUE)
    \/ \E maxDaysInactive \in ExpiryLimits : checkStreakExpiry(maxDaysInactive, TRUE)
    \/ \E payload \in ImportPayloads : importStreakData(payload, TRUE)
    \/ Tick

Spec == Init /\ [][Next]_vars

(* Imports of every kind of payload between the recording calls *)

NextImport ==
    \/ \E isCorrect \in BOOLEAN : updateStreakForAnswer(isCorrect, TRUE)
    \/ \E passed \in BOOLEAN : updateQuizStats(passed, TRUE)
    \/ \E payload \in ImportPayloads \cup MistypedPayloads, ok \in BOOLEAN :
          importStreakData(payload, ok)

SpecImport == Init /\ [][NextImport]_vars

(* The same calls over a store that can fail: a write may throw (quota,
   storage disabled) and the stored text may become unreadable *)

\* the store is emptied, damaged or made inaccessible from outside the
\* program
storeFault(fault) ==
    /\ storage # fault
    /\ storage' = fault
    /\ Observe(fault, FALSE, TRUE, FALSE)
    /\ UNCHANGED <<clock, call, leaderboardVars, appVars>>

NextFailingStore ==
    \/ \E isCorrect \in BOOLEAN, ok \in BOOLEAN : updateStreakForAnswer(isCorrect, ok)
    \/ \E passed \in BOOLEAN, ok \in BOOLEAN : updateQuizStats(passed, ok)
    \/ \E fault \in FaultyStores \cup {<<>>} : storeFault(fault)

SpecFailingStore == Init /\ [][NextFailingStore]_vars

----------------------------------------------------------------------------
(* The public operations of LeaderboardManager *)

\* the roster a read of the store returns now
roster == loadLeaderboard(leaderboardStorage)

setPlayerName(name) ==
    /\ nameStorage' = <<name>>
    /\ lbCall' = [NoLbCall EXCEPT !.op = "setPlayerName",
                                  !.playerName = name,
                                  !.before = roster]
    /\ UNCHANGED <<leaderboardStorage, streakVars, appVars>>

updateLeaderboard(streakData) ==
    LET playerName == getPlayerName(nameStorage)
        leaderboard == loadLeaderboard(leaderboardStorage)
        sorted == SortedEntries(leaderboard, playerName, streakData, clock)
    IN  /\ leaderboardStorage' = saveLeaderboard(TopEntries(sorted))
        /\ lbCall' = [NoLbCall EXCEPT !.op = "updateLeaderboard",
                                      !.playerName = playerName,
                                      !.streakData = streakData,
                                      !.before = leaderboard,
                                      !.sorted = sorted]
        /\ UNCHANGED <<nameStorage, streakVars, appVars>>

getCurrentPlayerRank ==
    LET playerName == getPlayerName(nameStorage)
    IN  /\ lbCall' = [NoLbCall EXCEPT !.op = "getCurrentPlayerRank",
                                      !.playerName = playerName,
                                      !.before = roster,
                                      !.rank = CurrentPlayerRank(roster, playerName)]
        /\ UNCHANGED <<leaderboardStorage, nameStorage, streakVars, appVars>>

getTopPlayers(limit) ==
    /\ lbCall' = [NoLbCall EXCEPT !.op = "getTopPlayers",
                                  !.before = roster,
                                  !.limit = limit,
                                  !.entries = TopPlayers(roster, limit)]
    /\ UNCHANGED <<leaderboardStorage, nameStorage, streakVars, appVars>>

getPlayersAroundRank(playerRank, range) ==
    /\ lbCall' = [NoLbCall EXCEPT !.op = "getPlayersAroundRank",
                                  !.before = roster,
                                  !.playerRank = playerRank,
                                  !.range = range,
                                  !.entries = PlayersAroundRank(roster, playerRank, range)]
    /\ UNCHANGED <<leaderboardStorage, nameStorage, streakVars, appVars>>

clearLeaderboard ==
    /\ leaderboardStorage' = clearLeaderboardStorage
    /\ lbCall' = [NoLbCall EXCEPT !.op = "clearLeaderboard",
                                  !.before = roster]
    /\ UNCHANGED <<nameStorage, streakVars, appVars>>

addSampleData ==
    /\ leaderboardStorage' = saveLeaderboard(sampleData)
    /\ lbCall' = [NoLbCall EXCEPT !.op = "addSampleData",
                                  !.before = roster]
    /\ UNCHANGED <<nameStorage, streakVars, appVars>>

(* Inputs of the leaderboard operations *)

\* the names setPlayerName is called with
PlayerNames == {"", "Ann", "ann"}

StreakStats(points, longest, passed) ==
    [defaultData EXCEPT !.totalPoints = points,
                        !.longestStreak = longest,
                        !.totalQuizzesPassed = passed,
                        !.totalQuizzesTaken = passed]

\* the statistics updateLeaderboard is called with
StatsInputs ==
    { StreakStats(150, 1, 1), StreakStats(100, 10, 5), StreakStats(100, 10, 4) }

\* largest rank asked for
MaxRank == 3
\* largest range asked for
MaxRange == 2
\* largest limit asked for
MaxLimit == 2

NextLeaderboard ==
    \/ \E name \in PlayerNames : setPlayerName(name)
    \/ \E streakData \in StatsInputs : updateLeaderboard(streakData)
    \/ getCurrentPlayerRank
    \/ \E limit \in 0..MaxLimit : getTopPlayers(limit)
    \/ \E playerRank \in 0..MaxRank, range \in 0..MaxRange :
           getPlayersAroundRank(playerRank, range)
    \/ clearLeaderboard
    \/ addSampleData

SpecLeaderboard == Init /\ [][NextLeaderboard]_vars

----------------------------------------------------------------------------
(* Properties of updateStreakForAnswer *)

\* C1: after every updateStreakForAnswer call the persisted totalPoints is
\* the totalPoints read before the call plus the pointsEarned the call
\* returned, and that pointsEarned is never negative, so totalPoints never
\* decreases over a sequence of such calls.
C1_PointsGrowByEarned ==
    call.op = "updateStreakForAnswer" =>
        /\ call.pointsEarned >= 0
        /\ persisted.totalPoints = call.before.totalPoints + call.pointsEarned
        /\ call.data.totalPoints = persisted.totalPoints

\* a point was earned on top of points earned before, after an earlier
\* streak was broken
C1_Witness ==
    /\ call.op = "updateStreakForAnswer"
    /\ call.pointsEarned = 1
    /\ call.before.totalPoints >= 1
    /\ call.before.longestStreak > persisted.currentStreak

\* C2: counting correct answers from an Idle state with none counted, after
\* 1 or 2 of them the streak is not active and currentStreak is 0, and after
\* exactly 3 it is active with currentStreak = 3.
C2_ActivationThreshold ==
    /\ run.n \in {1, 2} => ~persisted.isInStreak /\ persisted.currentStreak = 0
    /\ run.n = 3 => persisted.isInStreak /\ persisted.currentStreak = 3

\* the third correct answer in a row has just been recorded
C2_Witness ==
    /\ call.op = "updateStreakForAnswer"
    /\ call.isCorrect
    /\ run.n = 3
    /\ call.runBefore.n = 2

\* C3: an incorrect answer recorded while isInStreak holds leaves
\* currentStreak = 0, consecutiveCorrectAnswers = 0 and isInStreak = FALSE,
\* with totalPoints and longestStreak as they were.
C3_HardReset ==
    (call.op = "updateStreakForAnswer" /\ ~call.isCorrect /\ call.before.isInStreak) =>
        /\ persisted.currentStreak = 0
        /\ persisted.consecutiveCorrectAnswers = 0
        /\ ~persisted.isInStreak
        /\ persisted.totalPoints = call.before.totalPoints
        /\ persisted.longestStreak = call.before.longestStreak

\* a streak of four or more has just been broken
C3_Witness ==
    /\ call.op = "updateStreakForAnswer"
    /\ ~call.isCorrect
    /\ call.before.isInStreak
    /\ call.before.currentStreak >= 4
    /\ call.before.totalPoints >= 2

\* C4 as stated: over all operations, resetStreak and importStreakData
\* included, longestStreak never decreases and equals the largest
\* currentStreak ever persisted.
C4_Original ==
    /\ call.op # "none" => persisted.longestStreak >= call.before.longestStreak
    /\ persisted.longestStreak = maxEver

\* C4 as amended: updateStreakForAnswer, updateQuizStats and
\* checkStreakExpiry never decrease longestStreak; resetStreak sets it to 0;
\* and while no import has written the record, longestStreak equals the
\* largest currentStreak persisted since the record was first created or
\* last reset.
C4_LongestSinceReset ==
    /\ call.op \in {"updateStreakForAnswer", "updateQuizStats", "checkStreakExpiry"} =>
           persisted.longestStreak >= call.before.longestStreak
    /\ call.op = "resetStreak" => persisted.longestStreak = 0
    /\ ~imported => persisted.longestStreak = maxSeen

\* after a reset a new, shorter streak is running: longestStreak follows
\* the new streak, below the largest currentStreak ever persisted
C4_Witness ==
    /\ ~imported
    /\ call.op = "updateStreakForAnswer"
    /\ persisted.isInStreak
    /\ persisted.longestStreak = maxSeen
    /\ maxSeen >= 3
    /\ maxEver > maxSeen

\* C5 as stated: in every record reached from the default through
\* updateStreakForAnswer, updateQuizStats, checkStreakExpiry and resetStreak,
\* currentStreak > 0 implies isInStreak, and isInStreak implies
\* currentStreak = consecutiveCorrectAnswers.
C5_Original ==
    ~imported =>
        /\ persisted.currentStreak > 0 => persisted.isInStreak
        /\ persisted.isInStreak =>
               persisted.currentStreak = persisted.consecutiveCorrectAnswers

\* C6: counting k correct answers in a row from an Idle record with none
\* counted, totalPoints has grown by 0 for k < 3 and by k - 2 for k >= 3, and
\* for k >= 3 currentStreak = k; from the default record that is
\* totalPoints = k - 2.  An incorrect answer after such a run leaves
\* totalPoints at that value.
C6_PointsOfRun ==
    /\ run.n \in {1, 2} => persisted.totalPoints = run.start.totalPoints
    /\ run.n >= 3 =>
           /\ persisted.currentStreak = run.n
           /\ persisted.totalPoints = run.start.totalPoints + (run.n - 2)
    /\ (run.n >= 3 /\ run.start = defaultData) => persisted.totalPoints = run.n - 2
    /\ (/\ call.op = "updateStreakForAnswer"
        /\ ~call.isCorrect
        /\ call.runBefore.n >= 3) =>
           persisted.totalPoints = call.runBefore.start.totalPoints + (call.runBefore.n - 2)

\* four or more correct answers from the default record, then an incorrect one
C6_Witness ==
    /\ call.op = "updateStreakForAnswer"
    /\ ~call.isCorrect
    /\ call.runBefore.n >= 4
    /\ call.runBefore.start = defaultData
    /\ persisted.totalPoints = call.runBefore.n - 2

\* C7: the pointsEarned returned by updateStreakForAnswer is 0 or 1, and it
\* is 1 exactly when the answer was correct and the record after the call
\* has isInStreak.
C7_PointsEarnedZeroOrOne ==
    call.op = "updateStreakForAnswer" =>
        /\ call.pointsEarned \in {0, 1}
        /\ call.pointsEarned = 1 <=> (call.isCorrect /\ persisted.isInStreak)

\* the answer that starts a streak has earned its point
C7_Witness ==
    /\ call.op = "updateStreakForAnswer"
    /\ call.isCorrect
    /\ ~call.before.isInStreak
    /\ persisted.isInStreak
    /\ call.pointsEarned = 1

(* Properties of updateQuizStats *)

\* C8: updateQuizStats(passed) adds 1 to totalQuizzesTaken, adds 1 to
\* totalQuizzesPassed when passed and 0 otherwise, and leaves currentStreak,
\* longestStreak, consecutiveCorrectAnswers, isInStreak and totalPoints as
\* they were.
C8_QuizStatsFrame ==
    call.op = "updateQuizStats" =>
        /\ persisted.totalQuizzesTaken = call.before.totalQuizzesTaken + 1
        /\ persisted.totalQuizzesPassed =
               call.before.totalQuizzesPassed + (IF call.passed THEN 1 ELSE 0)
        /\ persisted.currentStreak = call.before.currentStreak
        /\ persisted.longestStreak = call.before.longestStreak
        /\ persisted.consecutiveCorrectAnswers = call.before.consecutiveCorrectAnswers
        /\ persisted.isInStreak = call.before.isInStreak
        /\ persisted.totalPoints = call.before.totalPoints

\* a failed quiz was recorded while a streak was running
C8_Witness ==
    /\ call.op = "updateQuizStats"
    /\ ~call.passed
    /\ call.before.isInStreak
    /\ call.before.currentStreak >= 3
    /\ call.before.totalPoints >= 1

AllZero(d) ==
    /\ d.currentStreak = 0
    /\ d.longestStreak = 0
    /\ d.lastQuizDate = <<>>
    /\ d.totalQuizzesPassed = 0
    /\ d.totalQuizzesTaken = 0
    /\ d.totalPoints = 0
    /\ d.consecutiveCorrectAnswers = 0
    /\ ~d.isInStreak

\* C10: resetStreak, whatever the record was, returns the all-zero record
\* and has stored it, so that a read after it returns the all-zero record.
C10_ResetStoresDefaults ==
    call.op = "resetStreak" =>
        /\ AllZero(call.data)
        /\ storage = <<call.data>>
        /\ AllZero(persisted)

\* a record with a running streak, points and a quiz date was reset
C10_Witness ==
    /\ call.op = "resetStreak"
    /\ call.before.isInStreak
    /\ call.before.totalPoints >= 2
    /\ call.before.totalQuizzesTaken >= 1
    /\ call.before.lastQuizDate # <<>>

(* Properties of checkStreakExpiry *)

\* C11: checkStreakExpiry(maxDaysInactive) returns TRUE exactly when the
\* record read has currentStreak > 0 and a lastQuizDate whose day lies more
\* than maxDaysInactive days before the day of the call (a difference equal
\* to maxDaysInactive does not expire); when it returns FALSE the record is
\* as it was.
C11_ExpiryCondition ==
    call.op = "checkStreakExpiry" =>
        /\ call.result <=>
               /\ call.before.currentStreak > 0
               /\ call.before.lastQuizDate # <<>>
               /\ (call.now \div TicksPerDay) - call.before.lastQuizDate[1]
                      > call.maxDaysInactive
        /\ ~call.result => persisted = call.before

\* a streak expired one day after the last quiz, with a limit of 0 days
C11_Witness ==
    /\ call.op = "checkStreakExpiry"
    /\ call.result
    /\ call.maxDaysInactive = 0
    /\ call.before.currentStreak >= 3
    /\ (call.now \div TicksPerDay) - call.before.lastQuizDate[1] = 1

\* C12: when checkStreakExpiry returns TRUE, the record differs from the one
\* read only in currentStreak, which is 0.
C12_ExpiryFrame ==
    (call.op = "checkStreakExpiry" /\ call.result) =>
        /\ persisted.currentStreak = 0
        /\ persisted.consecutiveCorrectAnswers = call.before.consecutiveCorrectAnswers
        /\ persisted.isInStreak = call.before.isInStreak
        /\ persisted.totalPoints = call.before.totalPoints
        /\ persisted.longestStreak = call.before.longestStreak
        /\ persisted.totalQuizzesTaken = call.before.totalQuizzesTaken
        /\ persisted.totalQuizzesPassed = call.before.totalQuizzesPassed
        /\ persisted.lastQuizDate = call.before.lastQuizDate

\* an active streak expired: the flag and the count of correct answers stay
C12_Witness ==
    /\ ~imported
    /\ call.op = "checkStreakExpiry"
    /\ call.result
    /\ persisted.isInStreak
    /\ persisted.consecutiveCorrectAnswers >= 3
    /\ persisted.totalPoints >= 1
    /\ persisted.currentStreak = 0

\* C13 as stated: an incorrect answer recorded in an Idle record
\* (isInStreak = FALSE, consecutiveCorrectAnswers < 3) changes no field.
C13_Original ==
    (/\ call.op = "updateStreakForAnswer"
     /\ ~call.isCorrect
     /\ ~call.before.isInStreak
     /\ call.before.consecutiveCorrectAnswers < StreakThreshold) =>
        persisted = call.before

\* C13 as amended: an incorrect answer recorded in an Idle record
\* (isInStreak = FALSE, consecutiveCorrectAnswers < 3, currentStreak = 0)
\* sets consecutiveCorrectAnswers to 0 and changes no other field, so it
\* changes nothing exactly when consecutiveCorrectAnswers was already 0.
C13_IdleWrongAnswer ==
    (/\ call.op = "updateStreakForAnswer"
     /\ ~call.isCorrect
     /\ ~call.before.isInStreak
     /\ call.before.consecutiveCorrectAnswers < StreakThreshold
     /\ call.before.currentStreak = 0) =>
        /\ persisted = [call.before EXCEPT !.consecutiveCorrectAnswers = 0]
        /\ (persisted = call.before) <=> (call.before.consecutiveCorrectAnswers = 0)

\* two correct answers were counted, after an earlier streak, when the
\* incorrect one came
C13_Witness ==
    /\ call.op = "updateStreakForAnswer"
    /\ ~call.isCorrect
    /\ ~call.before.isInStreak
    /\ call.before.consecutiveCorrectAnswers = 2
    /\ call.before.longestStreak >= 3
    /\ persisted.consecutiveCorrectAnswers = 0

(* A roster at capacity: a hundred players have been recorded, the last ten
   of them equal on all three keys *)

fullRoster ==
    [i \in 1..Capacity |->
        [ playerName         |-> "Player " \o ToString(i),
          totalPoints        |-> IF i <= 90 THEN 200 - i ELSE 100,
          longestStreak      |-> 10,
          totalQuizzesPassed |-> 5,
          lastActive         |-> 0,
          rank               |-> i ]]

InitFullRoster ==
    /\ storage = <<>>
    /\ clock = 0
    /\ call = NoCall
    /\ run = [n |-> 0, start |-> defaultData]
    /\ maxSeen = 0
    /\ maxEver = 0
    /\ imported = FALSE
    /\ leaderboardStorage = saveLeaderboard(fullRoster)
    /\ nameStorage = <<>>
    /\ lbCall = NoLbCall
    /\ currentStreakData = defaultData
    /\ session = NoSession
    /\ tabs = NoTabs
    /\ shown = NothingShown

\* the statistics recorded from then on
LateStatsInputs == { StreakStats(150, 1, 1), StreakStats(100, 10, 5) }

NextFullRoster ==
    \/ \E name \in PlayerNames : setPlayerName(name)
    \/ \E streakData \in LateStatsInputs : updateLeaderboard(streakData)
    \/ getCurrentPlayerRank
    \/ clearLeaderboard
    \/ addSampleData

SpecFullRoster == InitFullRoster /\ [][NextFullRoster]_vars

----------------------------------------------------------------------------
(* Math.round((a / b) * 100) on numbers: a and b are integers, the quotient
   and the product are IEEE 754 doubles, each rounded to 53 significant bits,
   ties to even.  A double is [limbs, exp]: limbs holds the 53 significant
   bits, most significant first, as the leading 1 followed by four groups of
   13 bits, and exp is the exponent of the last bit; zero is
   [limbs |-> <<>>, exp |-> 0].  The integers involved stay below 2^13. *)

SignificantBits == 53
LimbBits == 13
Limb == 2^LimbBits

Zero == [limbs |-> <<>>, exp |-> 0]

\* the double one unit in the last place above x
NextUp(x) ==
    LET open == {i \in 2..5 : x.limbs[i] < Limb - 1}
    IN  IF open = {}
        THEN [limbs |-> <<1, 0, 0, 0, 0>>, exp |-> x.exp + 1]
        ELSE LET k == CHOOSE i \in open : \A j \in open : j <= i
             IN  [limbs |-> [i \in 1..5 |-> IF i < k THEN x.limbs[i]
                                            ELSE IF i = k THEN x.limbs[i] + 1
                                            ELSE 0],
                  exp |-> x.exp]

\* round to nearest, ties to even: up when the part cut off is above half a
\* unit in the last place, or is half a unit and the last bit kept is 1
RoundNearestEven(x, aboveHalf, half) ==
    IF aboveHalf \/ (half /\ (x.limbs[5] % 2) = 1) THEN NextUp(x) ELSE x

\* the shift a with t <= p * 2^a < 2 * t, for 0 < p <= t
ShiftUp(p, t) == CHOOSE a \in 0..LimbBits : t <= p * 2^a /\ p * 2^a < 2 * t

\* the shift b with t * 2^b <= p < 2 * t * 2^b, for p >= t
ShiftDown(p, t) == CHOOSE b \in 0..LimbBits : t * 2^b <= p /\ p < 2 * t * 2^b

\* p / t as a double, for integers p >= 0 and t > 0: long division, 13 bits
\* of the quotient at a time
Divide(p, t) ==
    IF p = 0 THEN Zero
    ELSE LET a == IF p <= t THEN ShiftUp(p, t) ELSE 0
             b == IF p <= t THEN 0 ELSE ShiftDown(p, t)
             num == p * 2^a
             den == t * 2^b
             r1 == num - den
             r2 == (r1 * Limb) % den
             r3 == (r2 * Limb) % den
             r4 == (r3 * Limb) % den
             r5 == (r4 * Limb) % den
         IN  RoundNearestEven(
                 [limbs |-> <<1, (r1 * Limb) \div den, (r2 * Limb) \div den,
                                 (r3 * Limb) \div den, (r4 * Limb) \div den>>,
                  exp |-> b - a - (SignificantBits - 1)],
                 2 * r5 > den, 2 * r5 = den)

\* the number of bits of v > 0
BitLength(v) == CHOOSE n \in 1..(2 * LimbBits) : 2^(n - 1) <= v /\ v < 2^n

\* x * k as a double, for a double x >= 0 and an integer k in 1..Limb: the
\* exact product limb by limb, then cut back to 53 bits
Times(x, k) ==
    IF x = Zero THEN Zero
    ELSE LET v5 == x.limbs[5] * k
             v4 == x.limbs[4] * k + (v5 \div Limb)
             v3 == x.limbs[3] * k + (v4 \div Limb)
             v2 == x.limbs[2] * k + (v3 \div Limb)
             v1 == x.limbs[1] * k + (v2 \div Limb)
             low == <<v1, v2 % Limb, v3 % Limb, v4 % Limb, v5 % Limb>>
             cut == BitLength(v1) - 1
             kept == [i \in 1..5 |->
                         IF i = 1 THEN 1
                         ELSE (low[i - 1] % 2^cut) * 2^(LimbBits - cut)
                              + (low[i] \div 2^cut)]
             dropped == low[5] % 2^cut
         IN  RoundNearestEven([limbs |-> kept, exp |-> x.exp + cut],
                              cut > 0 /\ 2 * dropped > 2^cut,
                              cut > 0 /\ 2 * dropped = 2^cut)

\* Math.round(x) for a double 0 <= x < 2^13: the integer part, plus one when
\* the fraction is a half or more
MathRound(x) ==
    IF x = Zero THEN 0
    ELSE LET n == SignificantBits + x.exp     \* bits before the binary point
             top == x.limbs[1] * Limb + x.limbs[2]   \* the first 14 bits
         IN  IF n < 0 THEN 0
             ELSE (top \div 2^(LimbBits + 1 - n)) + ((top \div 2^(LimbBits - n)) % 2)

\* Math.round((p / t) * 100)
RoundedPercent(p, t) == MathRound(Times(Divide(p, t), 100))

----------------------------------------------------------------------------
(* StreakManager: the messages *)

\* getStreakMessage: which of the texts is returned, and the number in it
getStreakMessage(streakData) ==
    IF ~streakData.isInStreak /\ streakData.consecutiveCorrectAnswers \in 0..2
    THEN [kind |-> "encouragement", number |-> streakData.consecutiveCorrectAnswers]
    ELSE IF streakData.isInStreak
    THEN [kind |-> IF streakData.currentStreak < 5 THEN "active"
                   ELSE IF streakData.currentStreak < 10 THEN "great"
                   ELSE IF streakData.currentStreak < 20 THEN "incredible"
                   ELSE "legendary",
          number |-> streakData.currentStreak]
    ELSE [kind |-> "fallback", number |-> 0]

\* the passRate of getStatsMessage
passRate(streakData) ==
    IF streakData.totalQuizzesTaken > 0
    THEN RoundedPercent(streakData.totalQuizzesPassed, streakData.totalQuizzesTaken)
    ELSE 0

\* getStatsMessage: the four numbers of the text
getStatsMessage(streakData) ==
    [ op            |-> "getStatsMessage",
      totalPoints   |-> streakData.totalPoints,
      currentStreak |-> streakData.currentStreak,
      longestStreak |-> streakData.longestStreak,
      passRate      |-> passRate(streakData) ]

\* most quizzes taken in the records the statistics are asked of
MaxTaken == 40

\* the records after taken quizzes of which passed were passed
InitStats ==
    /\ \E taken \in 0..MaxTaken : \E passed \in 0..taken :
           storage = <<[defaultData EXCEPT !.totalQuizzesPassed = passed,
                                           !.totalQuizzesTaken = taken,
                                           !.lastQuizDate = IF taken = 0 THEN <<>> ELSE <<0>>]>>
    /\ clock = 0
    /\ call = NoCall
    /\ run = [n |-> 0, start |-> defaultData]
    /\ maxSeen = 0
    /\ maxEver = 0
    /\ imported = FALSE
    /\ leaderboardStorage = <<>>
    /\ nameStorage = <<>>
    /\ lbCall = NoLbCall
    /\ currentStreakData = defaultData
    /\ session = NoSession
    /\ tabs = NoTabs
    /\ shown = NothingShown

\* the statistics line is asked for
showStats ==
    /\ shown' = getStatsMessage(persisted)
    /\ UNCHANGED <<streakVars, leaderboardVars, currentStreakData, session, tabs>>

NextStats == showStats

SpecStats == InitStats /\ [][NextStats]_vars

----------------------------------------------------------------------------
(* StudyEZApp: the handlers of the user's clicks, over QuizManager,
   StreakManager and LeaderboardManager *)

\* most questions in a quiz
MaxQuestions == 2
\* most consecutive correct answers, points and quizzes taken in the app
MaxAppStreak == 3
MaxAppPoints == 1
MaxAppQuizzes == 1

\* quiz.passingScore of the quizzes offered
PassingScores == {70}

\* the names typed into the name field
AppPlayerNames == {"Ann"}

\* clicks on answers followed per attempt beyond one per question
MaxExtraClicks == 1

isCurrentQuestionAnswered(state) ==
    /\ state.currentQuiz # 0
    /\ state.currentQuestionIndex + 1 \in 1..state.currentQuiz
    /\ state.userAnswers[state.currentQuestionIndex + 1] # "none"

\* variant: any one answer is enough
areAllQuestionsAnswered_Some(state) ==
    /\ state.currentQuiz # 0
    /\ \E q \in 1..state.currentQuiz : state.userAnswers[q] # "none"

areAllQuestionsAnswered(state) ==
    /\ state.currentQuiz # 0
    /\ \A q \in 1..state.currentQuiz : state.userAnswers[q] # "none"

\* the buttons after updateNavigationButtons(state)
updateNavigationButtons(state) ==
    IF state.currentQuiz = 0
    THEN state
    ELSE LET isLastQuestion == state.currentQuestionIndex = state.currentQuiz - 1
             withPrev == [state EXCEPT !.prevDisabled = (state.currentQuestionIndex = 0)]
         IN  IF isLastQuestion
             THEN [withPrev EXCEPT !.nextShown = FALSE,
                                   !.submitShown = TRUE,
                                   !.submitDisabled = ~areAllQuestionsAnswered(state)]
             ELSE [withPrev EXCEPT !.nextShown = TRUE,
                                   !.submitShown = FALSE,
                                   !.nextDisabled = ~isCurrentQuestionAnswered(state)]

\* notifyStateChange -> handleStateChange -> updateQuizDisplay
handleStateChange(state) ==
    IF state.currentQuiz # 0 /\ ~state.isCompleted
       /\ state.currentQuestionIndex + 1 \in 1..state.currentQuiz
    THEN updateNavigationButtons(state)
    ELSE state

\* Math.round((correctCount / totalQuestions) * 100), in doubles
Percentage(correctCount, totalQuestions) ==
    RoundedPercent(correctCount, totalQuestions)

\* variant: a question without a recorded answer is counted as correct
correctCount_UnlessWrong(state) ==
    Cardinality({q \in 1..state.currentQuiz : state.userAnswers[q] # "wrong"})

\* completeQuiz: the questions whose recorded answer is the correct one
correctCount(state) ==
    Cardinality({q \in 1..state.currentQuiz : state.userAnswers[q] = "right"})

\* completeQuiz: whether the quiz was passed
QuizPassed(state) ==
    Percentage(correctCount(state), state.currentQuiz) >= state.passingScore

\* completeQuiz: the QuizResult returned
QuizResult(state) ==
    [ score          |-> correctCount(state),
      totalQuestions |-> state.currentQuiz,
      percentage     |-> Percentage(correctCount(state), state.currentQuiz),
      passed         |-> QuizPassed(state) ]

\* the store after updateLeaderboard(streakData) by the player named rawName
UpsertedStorage(rawStore, rawName, streakData, now) ==
    saveLeaderboard(TopEntries(SortedEntries(loadLeaderboard(rawStore),
                                             getPlayerName(rawName), streakData, now)))

\* what the handlers below leave alone: the clock and the records of direct calls
observerVars == <<clock, call, run, maxSeen, maxEver, imported, lbCall, tabs, shown>>

\* a click on a quiz card of the home screen, or on Retry of the results screen
startQuiz(questions, passingScore) ==
    /\ session.screen \in {"home", "results"}
    /\ session.screen = "results" =>
           questions = session.currentQuiz /\ passingScore = session.passingScore
    /\ session' = [handleStateChange(
                       [session EXCEPT !.currentQuiz = questions,
                                       !.passingScore = passingScore,
                                       !.currentQuestionIndex = 0,
                                       !.userAnswers = [q \in 1..questions |-> "none"],
                                       !.isCompleted = FALSE,
                                       !.pointsShown = 0,
                                       !.answersSent = 0,
                                       !.pointsSinceStart = 0])
                       EXCEPT !.screen = "quiz"]
    /\ UNCHANGED <<storage, leaderboardStorage, nameStorage, currentStreakData, observerVars>>

\* a click on an answer of the question shown
selectAnswer(isCorrect) ==
    LET currentData == getStreakData(storage)
        streakUpdate == StreakForAnswer(currentData, isCorrect)
    IN  /\ session.screen = "quiz"
        /\ session.currentQuiz # 0 /\ ~session.isCompleted
        /\ isCorrect => /\ currentData.consecutiveCorrectAnswers < MaxAppStreak
                        /\ currentData.totalPoints < MaxAppPoints
        /\ session.answersSent < session.currentQuiz + MaxExtraClicks
        /\ storage' = saveStreakData(storage, streakUpdate.data, TRUE)
        /\ currentStreakData' = streakUpdate.data
        /\ session' = handleStateChange(
                           [session EXCEPT !.userAnswers[session.currentQuestionIndex + 1] =
                                               IF isCorrect THEN "right" ELSE "wrong",
                                           !.totalPointsEarned = @ + streakUpdate.pointsEarned,
                                           !.answersSent = @ + 1,
                                           !.pointsSinceStart = @ + streakUpdate.pointsEarned])
        /\ UNCHANGED <<leaderboardStorage, nameStorage, observerVars>>

previousQuestion ==
    /\ session.screen = "quiz" /\ ~session.prevDisabled
    /\ session.currentQuiz # 0
    /\ session' = IF session.currentQuestionIndex > 0
                  THEN handleStateChange([session EXCEPT !.currentQuestionIndex = @ - 1])
                  ELSE session
    /\ UNCHANGED <<storage, leaderboardStorage, nameStorage, currentStreakData, observerVars>>

nextQuestion ==
    /\ session.screen = "quiz" /\ session.nextShown /\ ~session.nextDisabled
    /\ session.currentQuiz # 0
    /\ session' = IF session.currentQuestionIndex < session.currentQuiz - 1
                  THEN handleStateChange([session EXCEPT !.currentQuestionIndex = @ + 1])
                  ELSE session
    /\ UNCHANGED <<storage, leaderboardStorage, nameStorage, currentStreakData, observerVars>>

\* variant: the leaderboard gets the copy held before updateQuizStats
submitQuiz_RanksStaleCopy ==
    LET passed == QuizPassed(session)
        currentData == getStreakData(storage)
        updated == QuizStats(currentData, passed, clock)
    IN  /\ session.screen = "quiz" /\ session.submitShown /\ ~session.submitDisabled
        /\ session.currentQuiz # 0
        /\ currentData.totalQuizzesTaken < MaxAppQuizzes
        /\ storage' = saveStreakData(storage, updated, TRUE)
        /\ currentStreakData' = updated
        /\ leaderboardStorage' = UpsertedStorage(leaderboardStorage, nameStorage,
                                                 currentStreakData, clock)
        /\ session' = [session EXCEPT !.isCompleted = TRUE,
                                      !.passed = passed,
                                      !.screen = "results",
                                      !.pointsShown = session.totalPointsEarned,
                                      !.totalPointsEarned = 0]
        /\ UNCHANGED <<nameStorage, observerVars>>

\* a click on Submit: completeQuiz, then showResults records the outcome and
\* the player's statistics
submitQuiz ==
    LET passed == QuizPassed(session)
        currentData == getStreakData(storage)
        updated == QuizStats(currentData, passed, clock)
    IN  /\ session.screen = "quiz" /\ session.submitShown /\ ~session.submitDisabled
        /\ session.currentQuiz # 0
        /\ currentData.totalQuizzesTaken < MaxAppQuizzes
        /\ storage' = saveStreakData(storage, updated, TRUE)
        /\ currentStreakData' = updated
        /\ leaderboardStorage' = UpsertedStorage(leaderboardStorage, nameStorage, updated, clock)
        /\ session' = [session EXCEPT !.isCompleted = TRUE,
                                      !.passed = passed,
                                      !.screen = "results",
                                      !.pointsShown = session.totalPointsEarned,
                                      !.totalPointsEarned = 0]
        /\ UNCHANGED <<nameStorage, observerVars>>

\* Home on the results, leaderboard and settings screens and in the navigation bar
goHome ==
    /\ session' = [session EXCEPT !.currentQuiz = 0,
                                  !.currentQuestionIndex = 0,
                                  !.userAnswers = <<>>,
                                  !.isCompleted = FALSE,
                                  !.screen = "home",
                                  !.pointsShown = 0,
                                  !.answersSent = 0,
                                  !.pointsSinceStart = 0]
    /\ UNCHANGED <<storage, leaderboardStorage, nameStorage, currentStreakData, observerVars>>

navigateTo(screen) ==
    /\ session' = [session EXCEPT !.screen = screen]
    /\ UNCHANGED <<storage, leaderboardStorage, nameStorage, currentStreakData, observerVars>>

\* Save on the leaderboard or the settings screen, with a name that is not
\* empty after trimming
\* variant: the entry under the previous name is taken out of the roster
savePlayerName_MovesEntry(name) ==
    /\ session.screen \in {"leaderboard", "settings"}
    /\ name # ""
    /\ nameStorage' = <<name>>
    /\ leaderboardStorage' =
           UpsertedStorage(
               saveLeaderboard(SelectSeq(loadLeaderboard(leaderboardStorage),
                                         LAMBDA entry :
                                             \/ entry.playerName = name
                                             \/ entry.playerName # getPlayerName(nameStorage))),
               <<name>>, currentStreakData, clock)
    /\ UNCHANGED <<storage, currentStreakData, session, observerVars>>

savePlayerName(name) ==
    /\ session.screen \in {"leaderboard", "settings"}
    /\ name # ""
    /\ nameStorage' = <<name>>
    /\ leaderboardStorage' =
           UpsertedStorage(leaderboardStorage, <<name>>, currentStreakData, clock)
    /\ UNCHANGED <<storage, currentStreakData, session, observerVars>>

addSampleLeaderboardData ==
    /\ session.screen = "leaderboard"
    /\ leaderboardStorage' = saveLeaderboard(sampleData)
    /\ UNCHANGED <<storage, nameStorage, currentStreakData, session, observerVars>>

\* variant: only the current player's entry is taken out
clearLeaderboardConfirmed_RemovesOnlyPlayer ==
    /\ session.screen = "leaderboard"
    /\ leaderboardStorage' =
           saveLeaderboard(SelectSeq(loadLeaderboard(leaderboardStorage),
                                     LAMBDA e : e.playerName # getPlayerName(nameStorage)))
    /\ UNCHANGED <<storage, nameStorage, currentStreakData, session, observerVars>>

\* Clear on the leaderboard screen, confirmed
clearLeaderboardConfirmed ==
    /\ session.screen = "leaderboard"
    /\ leaderboardStorage' = clearLeaderboardStorage
    /\ UNCHANGED <<storage, nameStorage, currentStreakData, session, observerVars>>

\* Reset all data on the settings screen, confirmed
resetAllData ==
    /\ session.screen = "settings"
    /\ storage' = saveStreakData(storage, resetData, TRUE)
    /\ currentStreakData' = resetData
    /\ session' = [session EXCEPT !.totalPointsEarned = 0]
    /\ UNCHANGED <<leaderboardStorage, nameStorage, observerVars>>

\* a quiz session: the quiz screen and the navigation bar
NextQuiz ==
    \/ \E questions \in 1..MaxQuestions, passingScore \in PassingScores :
           startQuiz(questions, passingScore)
    \/ \E isCorrect \in BOOLEAN : selectAnswer(isCorrect)
    \/ previousQuestion
    \/ nextQuestion
    \/ submitQuiz
    \/ goHome
    \/ \E screen \in {"leaderboard", "settings"} : navigateTo(screen)

SpecQuiz == Init /\ [][NextQuiz]_vars

\* quizzes of one question, and the leaderboard and settings screens
NextApp ==
    \/ \E passingScore \in PassingScores : startQuiz(1, passingScore)
    \/ \E isCorrect \in BOOLEAN : selectAnswer(isCorrect)
    \/ submitQuiz
    \/ goHome
    \/ \E screen \in {"leaderboard", "settings"} : navigateTo(screen)
    \/ \E name \in AppPlayerNames : savePlayerName(name)
    \/ addSampleLeaderboardData
    \/ clearLeaderboardConfirmed
    \/ resetAllData

SpecApp == Init /\ [][NextApp]_vars

(* Names saved by a player who opens the app on a roster at capacity: a
   player without a name, or the one recorded last, who has earned points
   since *)

\* the records such a player has earned
RenameRecords ==
    { defaultData,
      [StreakStats(100, 10, 5) EXCEPT !.lastQuizDate = toDateString(0)],
      [StreakStats(150, 40, 12) EXCEPT !.lastQuizDate = toDateString(0)] }

\* the names typed into the name field, one of them a name the roster holds
RenameNames == {"Ann", "Bob", "Player 100"}

InitRename ==
    /\ \E streakData \in RenameRecords :
           /\ storage = IF streakData = defaultData THEN <<>> ELSE <<streakData>>
           /\ currentStreakData = streakData
    /\ clock = 0
    /\ call = NoCall
    /\ run = [n |-> 0, start |-> defaultData]
    /\ maxSeen = 0
    /\ maxEver = 0
    /\ imported = FALSE
    /\ leaderboardStorage = saveLeaderboard(fullRoster)
    /\ nameStorage \in {<<>>, <<"Player 100">>}
    /\ lbCall = NoLbCall
    /\ session = NoSession
    /\ tabs = NoTabs
    /\ shown = NothingShown

NextRename ==
    \/ \E screen \in {"leaderboard", "settings"} : navigateTo(screen)
    \/ goHome
    \/ \E name \in RenameNames : savePlayerName(name)
    \/ clearLeaderboardConfirmed

SpecRename == InitRename /\ [][NextRename]_vars

----------------------------------------------------------------------------
(* QuizManager called directly, in any order; shown holds what the last
   call returned or threw *)

Returned(op, value) == [op |-> op, returned |-> value]

Thrown(op, message) == [op |-> op, thrown |-> message]

\* the onStateChange callback the app has registered
notifyStateChange(state) == handleStateChange(state)

managerFrame == <<streakVars, leaderboardVars, currentStreakData, tabs>>

QuizManager_startQuiz(questions, passingScore) ==
    /\ session' = notifyStateChange(
                       [session EXCEPT !.currentQuiz = questions,
                                       !.passingScore = passingScore,
                                       !.currentQuestionIndex = 0,
                                       !.userAnswers = [q \in 1..questions |-> "none"],
                                       !.isCompleted = FALSE])
    /\ shown' = [op |-> "startQuiz"]
    /\ UNCHANGED managerFrame

\* variant: a completed quiz still takes answers
QuizManager_answerQuestion_AfterCompletion(answer) ==
    /\ IF session.currentQuiz = 0
       THEN /\ shown' = Thrown("answerQuestion", "No active quiz")
            /\ session' = session
       ELSE /\ shown' = [op |-> "answerQuestion"]
            /\ session' = notifyStateChange(
                    [session EXCEPT !.userAnswers[session.currentQuestionIndex + 1] = answer])
    /\ UNCHANGED managerFrame

QuizManager_answerQuestion(answer) ==
    /\ IF session.currentQuiz = 0 \/ session.isCompleted
       THEN /\ shown' = Thrown("answerQuestion", "No active quiz")
            /\ session' = session
       ELSE /\ shown' = [op |-> "answerQuestion"]
            /\ session' = notifyStateChange(
                    [session EXCEPT !.userAnswers[session.currentQuestionIndex + 1] = answer])
    /\ UNCHANGED managerFrame

QuizManager_nextQuestion ==
    /\ IF session.currentQuiz = 0
       THEN /\ shown' = Thrown("nextQuestion", "No active quiz")
            /\ session' = session
       ELSE IF session.currentQuestionIndex < session.currentQuiz - 1
       THEN /\ shown' = Returned("nextQuestion", TRUE)
            /\ session' = notifyStateChange([session EXCEPT !.currentQuestionIndex = @ + 1])
       ELSE /\ shown' = Returned("nextQuestion", FALSE)
            /\ session' = session
    /\ UNCHANGED managerFrame

QuizManager_previousQuestion ==
    /\ IF session.currentQuiz = 0
       THEN /\ shown' = Thrown("previousQuestion", "No active quiz")
            /\ session' = session
       ELSE IF session.currentQuestionIndex > 0
       THEN /\ shown' = Returned("previousQuestion", TRUE)
            /\ session' = notifyStateChange([session EXCEPT !.currentQuestionIndex = @ - 1])
       ELSE /\ shown' = Returned("previousQuestion", FALSE)
            /\ session' = session
    /\ UNCHANGED managerFrame

\* variant: the index one past the last question is accepted
QuizManager_goToQuestion_PastEnd(index) ==
    /\ IF session.currentQuiz = 0
       THEN /\ shown' = Thrown("goToQuestion", "No active quiz")
            /\ session' = session
       ELSE IF index >= 0 /\ index <= session.currentQuiz
       THEN /\ shown' = Returned("goToQuestion", TRUE)
            /\ session' = [session EXCEPT !.currentQuestionIndex = index]
       ELSE /\ shown' = Returned("goToQuestion", FALSE)
            /\ session' = session
    /\ UNCHANGED managerFrame

QuizManager_goToQuestion(index) ==
    /\ IF session.currentQuiz = 0
       THEN /\ shown' = Thrown("goToQuestion", "No active quiz")
            /\ session' = session
       ELSE IF index >= 0 /\ index < session.currentQuiz
       THEN /\ shown' = Returned("goToQuestion", TRUE)
            /\ session' = notifyStateChange([session EXCEPT !.currentQuestionIndex = index])
       ELSE /\ shown' = Returned("goToQuestion", FALSE)
            /\ session' = session
    /\ UNCHANGED managerFrame

QuizManager_completeQuiz ==
    /\ IF session.currentQuiz = 0
       THEN /\ shown' = Thrown("completeQuiz", "No active quiz")
            /\ session' = session
       ELSE /\ shown' = Returned("completeQuiz", QuizResult(session))
            /\ session' = notifyStateChange([session EXCEPT !.isCompleted = TRUE])
    /\ UNCHANGED managerFrame

QuizManager_reset ==
    /\ session' = notifyStateChange(
                       [session EXCEPT !.currentQuiz = 0,
                                       !.currentQuestionIndex = 0,
                                       !.userAnswers = <<>>,
                                       !.isCompleted = FALSE])
    /\ shown' = [op |-> "reset"]
    /\ UNCHANGED managerFrame

\* the indices goToQuestion is called with: one before the first question
\* up to one past the last of the longest quiz
GoToIndices == (0 - 1)..MaxQuestions

NextManager ==
    \/ \E questions \in 1..MaxQuestions, passingScore \in PassingScores :
           QuizManager_startQuiz(questions, passingScore)
    \/ \E answer \in {"right", "wrong"} : QuizManager_answerQuestion(answer)
    \/ QuizManager_nextQuestion
    \/ QuizManager_previousQuestion
    \/ \E index \in GoToIndices : QuizManager_goToQuestion(index)
    \/ QuizManager_completeQuiz
    \/ QuizManager_reset

SpecManager == Init /\ [][NextManager]_vars

(* completeQuiz on the quizzes a caller can pass, with right of the questions
   answered correctly, wrong answered incorrectly and the rest unanswered *)

\* the longest quiz
MaxQuizLength == 40

\* the passing scores of those quizzes
ResultPassingScores == {58, 70}

InitComplete ==
    /\ storage = <<>>
    /\ clock = 0
    /\ call = NoCall
    /\ run = [n |-> 0, start |-> defaultData]
    /\ maxSeen = 0
    /\ maxEver = 0
    /\ imported = FALSE
    /\ leaderboardStorage = <<>>
    /\ nameStorage = <<>>
    /\ lbCall = NoLbCall
    /\ currentStreakData = defaultData
    /\ \E questions \in 1..MaxQuizLength, passingScore \in ResultPassingScores :
       \E right \in 0..questions :
       \E wrong \in 0..(questions - right) :
           session = notifyStateChange(
                         [NoSession EXCEPT
                              !.currentQuiz = questions,
                              !.passingScore = passingScore,
                              !.userAnswers =
                                  [q \in 1..questions |->
                                      IF q <= right THEN "right"
                                      ELSE IF q <= right + wrong THEN "wrong"
                                      ELSE "none"]])
    /\ tabs = NoTabs
    /\ shown = [op |-> "startQuiz"]

NextComplete == QuizManager_completeQuiz

SpecComplete == InitComplete /\ [][NextComplete]_vars

----------------------------------------------------------------------------
(* LeaderboardManager.updateLeaderboard in two tabs on one localStorage: a
   call reads the name and the roster, works on its copy and saves it; the
   other tab's reads and writes can fall between the read and the save *)

TabPlayerNames == {"Ann", "Bob"}

\* calls of updateLeaderboard followed per tab
MaxTabCalls == 2

\* the name is changed in one of the tabs
renamePlayer(name) ==
    /\ nameStorage # <<name>>
    /\ nameStorage' = <<name>>
    /\ UNCHANGED <<leaderboardStorage, lbCall, streakVars, appVars>>

\* variant: the call starts from an empty array instead of the stored roster
beginUpdate_StartsEmpty(t, streakData) ==
    /\ tabs[t].pc = "idle"
    /\ tabs[t].calls < MaxTabCalls
    /\ tabs' = [tabs EXCEPT ![t] = [@ EXCEPT !.pc = "loaded",
                                             !.calls = @ + 1,
                                             !.playerName = getPlayerName(nameStorage),
                                             !.streakData = streakData,
                                             !.leaderboard = <<>>,
                                             !.stale = FALSE]]
    /\ UNCHANGED <<streakVars, leaderboardVars, currentStreakData, session, shown>>

\* updateLeaderboard up to and including loadLeaderboard()
beginUpdate(t, streakData) ==
    /\ tabs[t].pc = "idle"
    /\ tabs[t].calls < MaxTabCalls
    /\ tabs' = [tabs EXCEPT ![t] = [@ EXCEPT !.pc = "loaded",
                                             !.calls = @ + 1,
                                             !.playerName = getPlayerName(nameStorage),
                                             !.streakData = streakData,
                                             !.leaderboard = loadLeaderboard(leaderboardStorage),
                                             !.stale = FALSE]]
    /\ UNCHANGED <<streakVars, leaderboardVars, currentStreakData, session, shown>>

\* the rest of updateLeaderboard: find, update or push, sort, re-rank, cut
\* and saveLeaderboard(topEntries)
finishUpdate(t) ==
    LET tab == tabs[t]
        sorted == SortedEntries(tab.leaderboard, tab.playerName, tab.streakData, clock)
    IN  /\ tab.pc = "loaded"
        /\ leaderboardStorage' = saveLeaderboard(TopEntries(sorted))
        /\ tabs' = [u \in Tabs |->
                      IF u = t
                      THEN [IdleTab EXCEPT !.calls = tab.calls,
                                           !.wrote = tab.wrote \cup {tab.playerName},
                                           !.savedStale = tab.savedStale \/ tab.stale]
                      ELSE IF tabs[u].pc = "loaded"
                      THEN [tabs[u] EXCEPT !.stale = TRUE]
                      ELSE tabs[u]]
        /\ UNCHANGED <<nameStorage, lbCall, streakVars, currentStreakData, session, shown>>

NextTabs ==
    \/ \E name \in TabPlayerNames : renamePlayer(name)
    \/ \E t \in Tabs, streakData \in LateStatsInputs : beginUpdate(t, streakData)
    \/ \E t \in Tabs : finishUpdate(t)

SpecTabs == Init /\ [][NextTabs]_vars

----------------------------------------------------------------------------
(* Leaderboard claims *)

\* a is not below b in the order (totalPoints, longestStreak,
\* totalQuizzesPassed), each descending
NotBelow(a, b) ==
    \/ a.totalPoints > b.totalPoints
    \/ /\ a.totalPoints = b.totalPoints
       /\ \/ a.longestStreak > b.longestStreak
          \/ /\ a.longestStreak = b.longestStreak
             /\ a.totalQuizzesPassed >= b.totalQuizzesPassed

\* C14: every persisted roster is sorted descending lexicographically by
\* (totalPoints, longestStreak, totalQuizzesPassed), and the entry at 0-based
\* position i holds rank i + 1, so the ranks are exactly 1..N.
C14_SortedAndRanked ==
    /\ \A i \in 1..Len(roster) : roster[i].rank = i
    /\ \A i \in 1..Len(roster) : \A j \in i..Len(roster) :
           NotBelow(roster[i], roster[j])

\* an upsert stored a roster holding the sample players and two players equal
\* on the first two keys, in the order of the third
C14_Witness ==
    /\ lbCall.op = "updateLeaderboard"
    /\ Len(roster) >= 12
    /\ \E i \in 1..(Len(roster) - 1) :
           /\ roster[i].totalPoints = roster[i + 1].totalPoints
           /\ roster[i].longestStreak = roster[i + 1].longestStreak
           /\ roster[i].totalQuizzesPassed > roster[i + 1].totalQuizzesPassed
           /\ lbCall.playerName = roster[i].playerName
           /\ FindPlayer(lbCall.before, lbCall.playerName) = 0

PlayerNamesOf(s) == {s[i].playerName : i \in 1..Len(s)}

\* C15: the roster never holds more than 100 entries; an upsert of a new
\* player into a roster of 100 leaves exactly 100, the entry left out is the
\* last of the 101 in sort order, and the 100 before it are kept in order.
C15_CapacityCut ==
    /\ Len(roster) <= Capacity
    /\ ( /\ lbCall.op = "updateLeaderboard"
         /\ Len(lbCall.before) = Capacity
         /\ FindPlayer(lbCall.before, lbCall.playerName) = 0 )
       => LET dropped == lbCall.sorted[Capacity + 1] IN
          /\ Len(lbCall.sorted) = Capacity + 1
          /\ Len(roster) = Capacity
          /\ roster = SubSeq(lbCall.sorted, 1, Capacity)
          /\ \A i \in 1..Capacity : NotBelow(roster[i], dropped)
          /\ PlayerNamesOf(roster) =
                 (PlayerNamesOf(lbCall.before) \cup {lbCall.playerName})
                     \ {dropped.playerName}
          /\ Cardinality(PlayerNamesOf(roster)) = Capacity

\* a new player entered a full roster at rank 51 and the player ranked 100
\* was left out
C15_Witness ==
    /\ lbCall.op = "updateLeaderboard"
    /\ Len(lbCall.before) = Capacity
    /\ FindPlayer(lbCall.before, lbCall.playerName) = 0
    /\ CurrentPlayerRank(roster, lbCall.playerName) = 51
    /\ lbCall.before[Capacity].playerName \notin PlayerNamesOf(roster)
    /\ Len(roster) = Capacity

\* a and b are equal on all three sort keys
Tied(a, b) ==
    /\ a.totalPoints = b.totalPoints
    /\ a.longestStreak = b.longestStreak
    /\ a.totalQuizzesPassed = b.totalQuizzesPassed

\* the last call recorded a player the roster did not hold
AppendedNewPlayer ==
    /\ lbCall.op = "updateLeaderboard"
    /\ FindPlayer(lbCall.before, lbCall.playerName) = 0

\* C16: the sort of an upsert is stable: entries that tie on all three keys
\* keep their order, so a newly appended entry ends after every existing entry
\* it ties with; recording A(100,10,5), B(100,10,5), C(150,1,1) in that order
\* gives C, A, B with ranks 1, 2, 3. (Below capacity, where the cut of C15
\* removes nothing.)
C16_StableSort ==
    (AppendedNewPlayer /\ Len(lbCall.before) < Capacity) =>
        LET new == FindPlayer(roster, lbCall.playerName) IN
        /\ new # 0
        /\ \A i \in 1..Len(roster) :
               (i # new /\ Tied(roster[i], roster[new])) => i < new
        /\ \A i \in 1..Len(lbCall.before) : \A j \in (i + 1)..Len(lbCall.before) :
               Tied(lbCall.before[i], lbCall.before[j]) =>
                   FindPlayer(roster, lbCall.before[i].playerName)
                       < FindPlayer(roster, lbCall.before[j].playerName)
        /\ ( /\ Len(lbCall.before) = 2
             /\ \A i \in 1..2 : /\ lbCall.before[i].totalPoints = 100
                                /\ lbCall.before[i].longestStreak = 10
                                /\ lbCall.before[i].totalQuizzesPassed = 5
             /\ lbCall.streakData.totalPoints = 150
             /\ lbCall.streakData.longestStreak = 1
             /\ lbCall.streakData.totalQuizzesPassed = 1 )
           => /\ Len(roster) = 3
              /\ roster[1].playerName = lbCall.playerName
              /\ roster[2].playerName = lbCall.before[1].playerName
              /\ roster[3].playerName = lbCall.before[2].playerName
              /\ \A i \in 1..3 : roster[i].rank = i

\* the third player (150,1,1) was recorded after two players tied on
\* (100,10,5), the second of which had been appended behind the first
C16_Witness ==
    /\ AppendedNewPlayer
    /\ Len(roster) = 3
    /\ roster[1].playerName = lbCall.playerName
    /\ roster[1].totalPoints = 150
    /\ Tied(roster[2], roster[3])
    /\ roster[2].totalPoints = 100 /\ roster[2].totalQuizzesPassed = 5
    /\ roster[2].playerName = "Ann" /\ roster[3].playerName = "ann"
    /\ lbCall.before[1].playerName = "Ann" /\ lbCall.before[2].playerName = "ann"

\* the entry carries the statistics the last call was given
HoldsStats(entry, streakData) ==
    /\ entry.totalPoints = streakData.totalPoints
    /\ entry.longestStreak = streakData.longestStreak
    /\ entry.totalQuizzesPassed = streakData.totalQuizzesPassed

\* the last call recorded a player the roster already held
UpdatedKnownPlayer ==
    /\ lbCall.op = "updateLeaderboard"
    /\ FindPlayer(lbCall.before, lbCall.playerName) # 0

\* no two entries carry the same name and no name is empty
UniqueNonEmptyNames ==
    /\ \A i \in 1..Len(roster) : roster[i].playerName # ""
    /\ \A i \in 1..Len(roster) : \A j \in 1..Len(roster) :
           roster[i].playerName = roster[j].playerName => i = j

\* an upsert of a known name replaces that entry's three statistics and
\* leaves the set of names and every other entry's statistics as they were
KnownPlayerOverwritten ==
    UpdatedKnownPlayer =>
        /\ Len(roster) = Len(lbCall.before)
        /\ PlayerNamesOf(roster) = PlayerNamesOf(lbCall.before)
        /\ \A i \in 1..Len(roster) :
               IF roster[i].playerName = lbCall.playerName
               THEN HoldsStats(roster[i], lbCall.streakData)
               ELSE \E k \in 1..Len(lbCall.before) :
                        /\ lbCall.before[k].playerName = roster[i].playerName
                        /\ Tied(lbCall.before[k], roster[i])

\* C17 as stated: playerName is a unique, non-empty key; an upsert of a known
\* name overwrites its entry and adds none, an upsert of a new name adds
\* exactly one entry.
C17_Original ==
    /\ UniqueNonEmptyNames
    /\ KnownPlayerOverwritten
    /\ AppendedNewPlayer =>
           /\ Len(roster) = Len(lbCall.before) + 1
           /\ PlayerNamesOf(roster) = PlayerNamesOf(lbCall.before) \cup {lbCall.playerName}

\* C17, amended: playerName is a unique, non-empty key; an upsert of a known
\* name overwrites its entry and adds none; an upsert of a new name adds
\* exactly one entry to a roster of fewer than 100, and to a roster of 100 it
\* adds that entry only if it does not sort last, one entry being left out.
C17_UniqueKey ==
    /\ UniqueNonEmptyNames
    /\ KnownPlayerOverwritten
    /\ (AppendedNewPlayer /\ Len(lbCall.before) < Capacity) =>
           /\ Len(roster) = Len(lbCall.before) + 1
           /\ PlayerNamesOf(roster) = PlayerNamesOf(lbCall.before) \cup {lbCall.playerName}
           /\ HoldsStats(roster[FindPlayer(roster, lbCall.playerName)], lbCall.streakData)
    /\ (AppendedNewPlayer /\ Len(lbCall.before) = Capacity) =>
           /\ Len(roster) = Capacity
           /\ PlayerNamesOf(roster) \subseteq
                  PlayerNamesOf(lbCall.before) \cup {lbCall.playerName}
           /\ lbCall.playerName \in PlayerNamesOf(roster)
                  <=> lbCall.sorted[Capacity + 1].playerName # lbCall.playerName

\* "Ann" was recorded again with other statistics while "ann" and the
\* anonymous player (recorded under the empty name) keep their own entries
C17_Witness ==
    /\ UpdatedKnownPlayer
    /\ lbCall.playerName = "Ann"
    /\ ~HoldsStats(lbCall.before[FindPlayer(lbCall.before, "Ann")], lbCall.streakData)
    /\ Len(roster) = 3
    /\ PlayerNamesOf(roster) = {"Ann", "ann", AnonymousPlayer}

\* the entries of s at the 0-based indices lower .. upper - 1
EntriesAt(s, lower, upper) ==
    IF lower >= upper THEN <<>> ELSE [i \in 1..(upper - lower) |-> s[lower + i]]

\* C18: getPlayersAroundRank(targetRank, range) returns exactly the roster
\* entries at the 0-based indices
\* [max(0, targetRank-range-1), min(size, targetRank+range)), in roster order,
\* and none when the lower bound is not below the upper; targetRank = 1,
\* range = 2 on five or more entries returns the entries ranked 1 to 3.
C18_WindowIndices ==
    lbCall.op = "getPlayersAroundRank" =>
        LET size  == Len(lbCall.before)
            lower == IF lbCall.playerRank - lbCall.range - 1 > 0
                     THEN lbCall.playerRank - lbCall.range - 1 ELSE 0
            upper == IF lbCall.playerRank + lbCall.range < size
                     THEN lbCall.playerRank + lbCall.range ELSE size
        IN  /\ lbCall.entries = EntriesAt(lbCall.before, lower, upper)
            /\ (lbCall.playerRank = 1 /\ lbCall.range = 2 /\ size >= 5) =>
                   /\ Len(lbCall.entries) = 3
                   /\ \A i \in 1..3 : lbCall.entries[i].rank = i

\* the window of rank 1 and range 2 was taken from a roster of more than five
\* entries and holds the entries ranked 1 to 3
C18_Witness ==
    /\ lbCall.op = "getPlayersAroundRank"
    /\ lbCall.playerRank = 1 /\ lbCall.range = 2
    /\ Len(lbCall.before) >= 5
    /\ Len(lbCall.entries) = 3
    /\ lbCall.entries[3] = lbCall.before[3]

\* the last call asked for the window of a rank the roster holds
RankedTarget ==
    /\ lbCall.op = "getPlayersAroundRank"
    /\ 1 <= lbCall.playerRank
    /\ lbCall.playerRank <= Len(lbCall.before)

\* the returned entries ranked above the target, and those ranked at or below
RankedAbove ==
    {i \in 1..Len(lbCall.entries) : lbCall.entries[i].rank < lbCall.playerRank}

RankedAtOrBelow ==
    {i \in 1..Len(lbCall.entries) : lbCall.entries[i].rank >= lbCall.playerRank}

\* C19 as stated: for a ranked target the window holds at most `range` entries
\* ranked above it and at most `range` entries ranked at or below it.
C19_Original ==
    RankedTarget =>
        /\ Cardinality(RankedAbove) <= lbCall.range
        /\ Cardinality(RankedAtOrBelow) <= lbCall.range

\* C19, amended: for a ranked target the window holds the target's entry, the
\* min(range, targetRank - 1) entries ranked next above it and the
\* min(range, size - targetRank) entries ranked next below it: at most `range`
\* above and at most range + 1 at or below.
C19_WindowAroundTarget ==
    RankedTarget =>
        /\ Cardinality(RankedAbove) = Min(lbCall.range, lbCall.playerRank - 1)
        /\ Cardinality(RankedAtOrBelow) =
               1 + Min(lbCall.range, Len(lbCall.before) - lbCall.playerRank)
        /\ Cardinality(RankedAbove) <= lbCall.range
        /\ Cardinality(RankedAtOrBelow) <= lbCall.range + 1
        /\ \E i \in 1..Len(lbCall.entries) :
               lbCall.entries[i] = lbCall.before[lbCall.playerRank]

\* the window of rank 3 and range 2 holds the ranks 1 to 5: two above, the
\* target and two below
C19_Witness ==
    /\ RankedTarget
    /\ lbCall.playerRank = 3 /\ lbCall.range = 2
    /\ Cardinality(RankedAbove) = 2
    /\ Cardinality(RankedAtOrBelow) = 3
    /\ Len(lbCall.entries) = 5

\* C20: for an unranked player getPlayersAroundRank(0, range) returns the
\* leading slice of the roster, its first min(size, range) entries.
C20_UnrankedLeadingSlice ==
    (lbCall.op = "getPlayersAroundRank" /\ lbCall.playerRank = 0) =>
        /\ Len(lbCall.entries) = Min(Len(lbCall.before), lbCall.range)
        /\ \A i \in 1..Len(lbCall.entries) : lbCall.entries[i] = lbCall.before[i]

\* a player without an entry asked for the window of rank 0 and got the first
\* two entries of the roster
C20_Witness ==
    /\ lbCall.op = "getPlayersAroundRank"
    /\ lbCall.playerRank = 0 /\ lbCall.range = 2
    /\ CurrentPlayerRank(lbCall.before, getPlayerName(nameStorage)) = 0
    /\ Len(lbCall.before) > 2
    /\ lbCall.entries = SubSeq(lbCall.before, 1, 2)

\* C21: getCurrentPlayerRank returns 0 exactly when the current player name
\* has no entry in the persisted roster; otherwise it returns that entry's
\* stored rank, which is the entry's 1-based position in the roster.
C21_RankLookup ==
    lbCall.op = "getCurrentPlayerRank" =>
        LET name == getPlayerName(nameStorage)
            held == {i \in 1..Len(roster) : roster[i].playerName = name}
        IN  /\ lbCall.rank = 0 <=> held = {}
            /\ \A i \in held : lbCall.rank = i /\ roster[i].rank = i

\* the player "ann" asked for their rank and got 2, behind one other player
C21_Witness ==
    /\ lbCall.op = "getCurrentPlayerRank"
    /\ nameStorage = <<"ann">>
    /\ lbCall.rank = 2
    /\ Len(roster) >= 2
    /\ roster[2].playerName = "ann"

\* every read of the roster finds nothing: no rank for any name, no top
\* players, no window
RosterReadsEmpty ==
    /\ roster = <<>>
    /\ \A name \in PlayerNames \cup AppPlayerNames \cup PlayerNamesOf(sampleData) \cup {AnonymousPlayer} :
           CurrentPlayerRank(roster, name) = 0
    /\ \A limit \in 0..MaxLimit : TopPlayers(roster, limit) = <<>>
    /\ \A playerRank \in 0..MaxRank, range \in 0..MaxRange :
           PlayersAroundRank(roster, playerRank, range) = <<>>

\* a handler that records a player or loads the sample players
RosterRefilled ==
    \/ submitQuiz
    \/ addSampleLeaderboardData
    \/ \E name \in AppPlayerNames : savePlayerName(name)

\* C22: after clearLeaderboard every read of the roster is empty (rank 0 for
\* every player, no entries from getTopPlayers and getPlayersAroundRank) until
\* the next upsert or addSampleData, and the streak record is not changed by
\* the clear.
C22_ClearedUntilRefilled ==
    [][ /\ clearLeaderboardConfirmed =>
               /\ RosterReadsEmpty'
               /\ storage' = storage
               /\ currentStreakData' = currentStreakData
        /\ (leaderboardStorage = clearLeaderboardStorage /\ ~RosterRefilled) =>
               RosterReadsEmpty'
      ]_vars

\* the roster was cleared after the player had taken a quiz and earned a
\* point: the store holds no roster and the streak record holds both
C22_Witness ==
    /\ leaderboardStorage = clearLeaderboardStorage
    /\ RosterReadsEmpty
    /\ persisted.totalQuizzesTaken >= 1
    /\ persisted.totalPoints >= 1
    /\ session.screen = "leaderboard"

----------------------------------------------------------------------------
(* Failure handling claims *)

\* the stored record gives no parsed object: it is absent or faulty
NothingReadable == storage \in FaultyStores \cup {<<>>}

\* what a recording call computes from the default record
FromDefault(c) ==
    IF c.op = "updateStreakForAnswer"
    THEN StreakForAnswer(defaultData, c.isCorrect).data
    ELSE QuizStats(defaultData, c.passed, clock)

\* a recording call has replaced an absent or faulty record by a parsed one
RecordedOverNothing ==
    NothingReadable /\ storage' # storage /\ storage' \notin FaultyStores \cup {<<>>}

\* C23: an absent, inaccessible or unparseable streak record reads as the
\* all-zero default, and updateStreakForAnswer / updateQuizStats called on
\* such a store complete from that default: the call saw the default as its
\* starting record, and what it returned and stored is what the default gives
C23_DefaultOnUnreadable ==
    [][ /\ NothingReadable => getStreakData(storage) = defaultData
        /\ RecordedOverNothing =>
              /\ call'.op \in {"updateStreakForAnswer", "updateQuizStats"}
              /\ call'.before = defaultData
              /\ call'.data = FromDefault(call')
              /\ storage' = <<call'.data>> ]_vars

\* a streak had been reached, the record was then lost or damaged, and a
\* correct answer has been recorded from the default
C23_Witness ==
    /\ maxEver > 0
    /\ call.op = "updateStreakForAnswer"
    /\ call.isCorrect
    /\ call.before = defaultData
    /\ storage = <<call.data>>
    /\ call.data.consecutiveCorrectAnswers = 1

\* a step of updateStreakForAnswer or updateQuizStats
RecordingCall ==
    \/ \E isCorrect \in BOOLEAN, ok \in BOOLEAN : updateStreakForAnswer(isCorrect, ok)
    \/ \E passed \in BOOLEAN, ok \in BOOLEAN : updateQuizStats(passed, ok)

\* what a recording call computes from the record it read
FromBefore(c) ==
    IF c.op = "updateStreakForAnswer"
    THEN StreakForAnswer(c.before, c.isCorrect).data
    ELSE QuizStats(c.before, c.passed, clock)

\* C24 as stated: when updateStreakForAnswer or updateQuizStats returns, the
\* persisted record equals the snapshot returned to the caller, whether or
\* not the write succeeded
C24_Original ==
    [][ RecordingCall => getStreakData(storage') = call'.data ]_vars

\* C24, amended: the call returns the new state computed from the record it
\* read; the store then holds exactly that state when the write succeeded,
\* and is left as it was when the write failed
C24_PersistedUnlessWriteFails ==
    [][ RecordingCall =>
          /\ call'.before = getStreakData(storage)
          /\ call'.data = FromBefore(call')
          /\ storage' = <<call'.data>> \/ storage' = storage ]_vars

\* a correct answer was returned as recorded while the store still holds the
\* record from before the call
C24_Witness ==
    /\ call.op = "updateStreakForAnswer"
    /\ call.isCorrect
    /\ call.data.totalPoints > call.before.totalPoints
    /\ storage = <<call.before>>
    /\ getStreakData(storage) # call.data

\* the payload is not JSON, or one of the five validated fields is missing
\* or of another kind
LacksRequiredField(payload) ==
    \/ ~payload.parses
    \/ \E f \in RequiredFields : payload.kinds[f] # RequiredKinds[f]

\* C25: importStreakData on a payload that does not parse, or in which one
\* of currentStreak, longestStreak, totalQuizzesPassed, totalQuizzesTaken
\* is not a number or lastQuizDate is not a string, returns false and
\* leaves the stored record exactly as it was
C25_InvalidImportRejected ==
    [][ ( /\ call'.op = "importStreakData"
          /\ \E payload \in ImportPayloads \cup MistypedPayloads, ok \in BOOLEAN :
                LacksRequiredField(payload) /\ importStreakData(payload, ok) ) =>
           /\ call'.result = FALSE
           /\ storage' = storage ]_vars

\* an import was refused while the store held a record with points in it,
\* and the record is still there
C25_Witness ==
    /\ call.op = "importStreakData"
    /\ ~call.result
    /\ storage # <<>>
    /\ persisted.totalPoints > 0
    /\ persisted = call.before

\* a name recorded by a completed call of tab t has no entry in the roster
NameLost(t) == \E name \in tabs[t].wrote : FindPlayer(roster, name) = 0

\* no tab other than t has called updateLeaderboard
SingleWriter(t) ==
    \A u \in Tabs \ {t} : tabs[u].pc = "idle" /\ tabs[u].wrote = {}

\* C26: updateLeaderboard reads, modifies and saves the roster without
\* mutual exclusion between tabs.  While only one tab calls it, every name
\* it recorded keeps its entry; a recorded name is missing only after
\* another tab saved a roster it had loaded before a save of this one.
C26_LostOnlyWhenInterleaved ==
    \A t \in Tabs :
        /\ SingleWriter(t) => ~NameLost(t)
        /\ NameLost(t) => \E u \in Tabs \ {t} : tabs[u].savedStale

\* both tabs have completed one call each, for different players, and the
\* roster holds the entry of only one of them: the other update is lost
C26_Witness ==
    /\ \A t \in Tabs : tabs[t].pc = "idle"
    /\ tabs[1].wrote = {"Ann"}
    /\ tabs[2].wrote = {"Bob"}
    /\ NameLost(1)
    /\ ~NameLost(2)
    /\ Len(roster) = 1

\* the entries of s that have no entry of the same name in t
NamesRemoved(s, t) ==
    {s[i].playerName : i \in 1..Len(s)} \ {t[i].playerName : i \in 1..Len(t)}

\* C27 as stated: an entry, once in the roster, is still there after every
\* operation except clearLeaderboard
C27_Original ==
    [][ lbCall'.op # "clearLeaderboard" =>
            NamesRemoved(roster, roster') = {} ]_vars

\* C27, amended: an entry stays in the roster through every read, every
\* change of name and every updateLeaderboard after which it is among the
\* first 100 in sort order; updateLeaderboard removes exactly the entries
\* that sort behind the first 100, addSampleData replaces the roster by the
\* ten sample entries, and clearLeaderboard empties it
C27_KeptWithinCapacity ==
    [][ LET after == lbCall' IN
        CASE after.op = "clearLeaderboard" -> roster' = <<>>
          [] after.op = "addSampleData" -> roster' = sampleData
          [] after.op = "updateLeaderboard" ->
                \A i \in 1..Len(roster) :
                    LET at == FindPlayer(after.sorted, roster[i].playerName) IN
                    /\ at # 0
                    /\ FindPlayer(roster', roster[i].playerName) # 0 <=> at <= Capacity
          [] OTHER -> NamesRemoved(roster, roster') = {} ]_vars

\* a player who had an entry has none after another player was recorded:
\* the entry was the last of 101
C27_Witness ==
    /\ lbCall.op = "updateLeaderboard"
    /\ Len(lbCall.sorted) = Capacity + 1
    /\ LET dropped == lbCall.sorted[Capacity + 1].playerName IN
       /\ dropped # lbCall.playerName
       /\ FindPlayer(lbCall.before, dropped) # 0
       /\ FindPlayer(roster, dropped) = 0

----------------------------------------------------------------------------
(* App claims *)

\* the index of the current player's entry in the roster, 0 when there is none
OwnEntry(lb, rawName) == FindPlayer(lb, getPlayerName(rawName))

C29_Original ==
    [][ resetAllData =>
          /\ getStreakData(storage') = resetData
          /\ OwnEntry(roster', nameStorage') = 0
          /\ CurrentPlayerRank(roster', getPlayerName(nameStorage')) = 0 ]_vars

\* every question of the quiz in progress has a recorded answer
EveryQuestionAnswered ==
    /\ session.currentQuiz # 0
    /\ \A q \in 1..session.currentQuiz : session.userAnswers[q] \in {"right", "wrong"}

\* C30: whatever answers and clicks on Previous, Next and Submit came
\* before, a click on Submit reaches completeQuiz only when every question
\* of the current quiz has a recorded answer, and a completed quiz has an
\* answer for every question
C30_SubmitOnlyWhenAllAnswered ==
    [][ /\ submitQuiz => EveryQuestionAnswered
        /\ session'.isCompleted => EveryQuestionAnswered' ]_vars

\* a quiz of two questions has been submitted, one answered right and one
\* answered wrong
C30_Witness ==
    /\ session.isCompleted
    /\ session.screen = "results"
    /\ session.currentQuiz = 2
    /\ session.userAnswers = <<"right", "wrong">>

----------------------------------------------------------------------------
(* Message claims *)

\* 100 * p / t rounded to the nearest integer, halves up
NearestPercent(p, t) == (200 * p + t) \div (2 * t)

\* C31 as stated: getStatsMessage reports passRate 0 when no quiz was taken
\* and otherwise 100 * totalQuizzesPassed / totalQuizzesTaken rounded to
\* the nearest integer, halves up; the passRate is an integer in 0..100
C31_Original ==
    shown.op = "getStatsMessage" =>
        /\ shown.passRate \in 0..100
        /\ shown.passRate = IF persisted.totalQuizzesTaken = 0 THEN 0
                            ELSE NearestPercent(persisted.totalQuizzesPassed,
                                                persisted.totalQuizzesTaken)

\* C32 as stated: in every record reached from the default through
\* updateStreakForAnswer, updateQuizStats, checkStreakExpiry and resetStreak,
\* getStreakMessage returns one of the three encouragements or one of the
\* four active texts, never the fallback, and an active text names a
\* currentStreak of at least 3
C32_Original ==
    ~imported =>
        LET message == getStreakMessage(persisted) IN
        /\ message.kind # "fallback"
        /\ message.kind # "encouragement" => message.number >= StreakThreshold

----------------------------------------------------------------------------
(* Session controller claims *)

\* C33 as stated: within one quiz attempt the controller sends at most one
\* correctness signal per question, so neither the number of
\* updateStreakForAnswer calls nor the points earned during the attempt
\* exceed the number of questions, also when an answer is selected again
C33_Original ==
    session.currentQuiz # 0 =>
        /\ session.answersSent <= session.currentQuiz
        /\ session.pointsSinceStart <= session.currentQuiz

\* C37 as stated: the points named on the results screen are the sum of the
\* pointsEarned returned since the attempt that was submitted was started,
\* also when an earlier attempt was abandoned or restarted
C37_Original ==
    session.screen = "results" => session.pointsShown = session.pointsSinceStart

\* the player named in the last updateLeaderboard has an entry in the
\* roster and a rank of at least 1
PlayerRanked ==
    /\ FindPlayer(roster, lbCall.playerName) # 0
    /\ CurrentPlayerRank(roster, lbCall.playerName) >= 1

\* C34 as stated: after updateLeaderboard the current player has an entry
\* and getCurrentPlayerRank returns a rank of at least 1, for every roster
\* size up to and including the capacity of 100
C34_Original ==
    lbCall.op = "updateLeaderboard" => PlayerRanked

\* the new entry was the last of 101 after the sort
SortedLastOfFull ==
    /\ AppendedNewPlayer
    /\ Len(lbCall.before) = Capacity
    /\ lbCall.sorted[Capacity + 1].playerName = lbCall.playerName

\* C34, amended: after updateLeaderboard the current player has an entry,
\* and getCurrentPlayerRank returns its 1-based place in sort order, when
\* the player had an entry before, or the roster held fewer than 100
\* entries, or the new entry does not sort last of the 101; when the new
\* entry sorts last of 101 the player has no entry and the rank is 0
C34_RankedUnlessCutOff ==
    lbCall.op = "updateLeaderboard" =>
        IF SortedLastOfFull
        THEN /\ FindPlayer(roster, lbCall.playerName) = 0
             /\ CurrentPlayerRank(roster, lbCall.playerName) = 0
        ELSE /\ PlayerRanked
             /\ CurrentPlayerRank(roster, lbCall.playerName)
                    = FindPlayer(lbCall.sorted, lbCall.playerName)

\* a new player was recorded into a roster of 100 and is ranked in it
C34_Witness ==
    /\ AppendedNewPlayer
    /\ Len(lbCall.before) = Capacity
    /\ Len(roster) = Capacity
    /\ PlayerRanked
    /\ CurrentPlayerRank(roster, lbCall.playerName) <= Capacity - 10

----------------------------------------------------------------------------
(* Expiry followed by an answer *)

\* the record checkStreakExpiry leaves behind when it expires an active
\* streak: the streak flag is set and the current streak is 0
Expired(d) == d.isInStreak /\ d.currentStreak = 0

\* C35: when checkStreakExpiry returns true on an active streak with
\* consecutiveCorrectAnswers = k, the record keeps the flag and k with
\* currentStreak 0; the next correct answer then sets currentStreak to k + 1
\* and earns 1 point, the flag staying set without a new activation, while
\* the next incorrect answer is the hard reset that earns nothing
C35_ExpiredStreakResumes ==
    [][ /\ (/\ call'.op = "checkStreakExpiry"
            /\ call'.result
            /\ call'.before.isInStreak) =>
                /\ Expired(persisted')
                /\ persisted'.consecutiveCorrectAnswers
                       = call'.before.consecutiveCorrectAnswers
        /\ (~imported /\ Expired(persisted)) =>
                persisted.consecutiveCorrectAnswers >= StreakThreshold
        /\ (Expired(persisted) /\ call'.op = "updateStreakForAnswer") =>
                IF call'.isCorrect
                THEN /\ persisted'.currentStreak
                           = persisted.consecutiveCorrectAnswers + 1
                     /\ persisted'.consecutiveCorrectAnswers
                           = persisted.consecutiveCorrectAnswers + 1
                     /\ persisted'.isInStreak
                     /\ persisted'.totalPoints = persisted.totalPoints + 1
                     /\ call'.pointsEarned = 1
                ELSE /\ persisted' = [persisted EXCEPT !.consecutiveCorrectAnswers = 0,
                                                       !.currentStreak = 0,
                                                       !.isInStreak = FALSE]
                     /\ call'.pointsEarned = 0 ]_vars

\* a streak of three expired and the next answer, a correct one, made it a
\* streak of four
C35_Witness ==
    /\ call.op = "updateStreakForAnswer"
    /\ call.isCorrect
    /\ Expired(call.before)
    /\ call.before.consecutiveCorrectAnswers = StreakThreshold
    /\ persisted.currentStreak = StreakThreshold + 1
    /\ call.pointsEarned = 1

----------------------------------------------------------------------------
(* Saving a new player name *)

\* the three statistics of the entries a and b are the same
SameStats(a, b) == Tied(a, b)

\* C36 as stated: saving a new player name creates or updates the entry
\* under the new name with the current streak snapshot and leaves the entry
\* under the previous name in the roster with its totalPoints,
\* longestStreak and totalQuizzesPassed unchanged
C36_Original ==
    [][ \A name \in RenameNames :
            (name # getPlayerName(nameStorage) /\ savePlayerName(name)) =>
                LET previous == getPlayerName(nameStorage)
                    was == FindPlayer(roster, previous)
                    now == FindPlayer(roster', name)
                    still == FindPlayer(roster', previous)
                IN  /\ now # 0
                    /\ HoldsStats(roster'[now], currentStreakData)
                    /\ was # 0 => /\ still # 0
                                  /\ SameStats(roster'[still], roster[was]) ]_vars

\* the entry a new name would get sorts behind every entry of a roster of 100
NewNameSortsLast(name) ==
    /\ FindPlayer(roster, name) = 0
    /\ Len(roster) = Capacity
    /\ \A i \in 1..Len(roster) :
           Compare(roster[i], NewEntry(name, currentStreakData, clock)) <= 0

\* the entry of the previous name is the last of a roster of 100 and the
\* entry a new name would get sorts ahead of it
NewNameEvicts(name, previous) ==
    /\ FindPlayer(roster, name) = 0
    /\ Len(roster) = Capacity
    /\ FindPlayer(roster, previous) = Capacity
    /\ Compare(NewEntry(name, currentStreakData, clock), roster[Capacity]) < 0

\* C36, amended: saving a new player name creates or updates the entry
\* under the new name with the current streak snapshot, unless the name has
\* no entry, the roster holds 100 and the new entry sorts last of the 101,
\* when no entry is stored; it leaves the entry under the previous name in
\* the roster with its three statistics unchanged, unless that entry is
\* the last of 100 and the new entry sorts ahead of it, when it is removed
C36_BothKeptWithinCapacity ==
    [][ \A name \in RenameNames :
            (name # getPlayerName(nameStorage) /\ savePlayerName(name)) =>
                LET previous == getPlayerName(nameStorage)
                    was == FindPlayer(roster, previous)
                    now == FindPlayer(roster', name)
                    still == FindPlayer(roster', previous)
                IN  /\ IF NewNameSortsLast(name)
                       THEN now = 0
                       ELSE now # 0 /\ HoldsStats(roster'[now], currentStreakData)
                    /\ was # 0 =>
                           IF NewNameEvicts(name, previous)
                           THEN still = 0
                           ELSE /\ still # 0
                                /\ SameStats(roster'[still], roster[was]) ]_vars

\* Ann and Bob both hold the player's record: the name was changed from one
\* to the other in a roster of 100
C36_Witness ==
    /\ Len(roster) = Capacity
    /\ nameStorage = <<"Bob">>
    /\ FindPlayer(roster, "Ann") # 0
    /\ FindPlayer(roster, "Bob") # 0
    /\ HoldsStats(roster[FindPlayer(roster, "Ann")], currentStreakData)
    /\ HoldsStats(roster[FindPlayer(roster, "Bob")], currentStreakData)

----------------------------------------------------------------------------
(* QuizManager claims *)

\* what QuizManager holds but for the index
Recorded(state) ==
    <<state.currentQuiz, state.passingScore, state.userAnswers, state.isCompleted>>

\* C38: while a quiz of n >= 1 questions is active currentQuestionIndex
\* stays within 0..n-1 through nextQuestion, previousQuestion and
\* goToQuestion(i); a call whose target index is outside 0..n-1 returns
\* false and leaves the session unchanged, a call whose target is inside
\* returns true, sets the index to it and changes no recorded answer
C38_IndexStaysInRange ==
    [][ /\ session'.currentQuiz # 0 =>
               session'.currentQuestionIndex \in 0..(session'.currentQuiz - 1)
        /\ (/\ session.currentQuiz # 0
            /\ shown'.op \in {"nextQuestion", "previousQuestion", "goToQuestion"}) =>
               \E target \in (0 - 1)..(MaxQuestions + 1) :
                   /\ \/ /\ shown'.op = "nextQuestion"
                         /\ target = session.currentQuestionIndex + 1
                      \/ /\ shown'.op = "previousQuestion"
                         /\ target = session.currentQuestionIndex - 1
                      \/ /\ shown'.op = "goToQuestion"
                         /\ target \in GoToIndices
                         /\ QuizManager_goToQuestion(target)
                   /\ IF target \in 0..(session.currentQuiz - 1)
                      THEN /\ shown'.returned = TRUE
                           /\ session'.currentQuestionIndex = target
                           /\ Recorded(session') = Recorded(session)
                      ELSE /\ shown'.returned = FALSE
                           /\ session' = session ]_vars

\* goToQuestion was called with the index one past the last question of the
\* longest quiz and returned false, the index staying on the last question
C38_Witness ==
    /\ shown = Returned("goToQuestion", FALSE)
    /\ session.currentQuiz = MaxQuestions
    /\ session.currentQuestionIndex = MaxQuestions - 1

\* answerQuestion throws and records nothing when no quiz is active or the
\* quiz is completed, and startQuiz resets to index 0, no answers, not
\* completed
AnswersGuarded ==
    /\ (/\ shown'.op = "answerQuestion"
        /\ session.currentQuiz = 0 \/ session.isCompleted) =>
            /\ shown' = Thrown("answerQuestion", "No active quiz")
            /\ session' = session
    /\ shown'.op = "startQuiz" =>
            /\ session'.currentQuiz # 0
            /\ session'.currentQuestionIndex = 0
            /\ \A q \in 1..session'.currentQuiz : session'.userAnswers[q] = "none"
            /\ ~session'.isCompleted

\* C39 as stated: answerQuestion throws and records nothing when no quiz is
\* active or the quiz is completed; once completeQuiz has run the recorded
\* answers do not change until startQuiz begins a new attempt, which resets
\* the session to index 0, no answers and not completed
C39_Original ==
    [][ /\ AnswersGuarded
        /\ (session.isCompleted /\ shown'.op # "startQuiz") =>
               /\ session'.userAnswers = session.userAnswers
               /\ session'.isCompleted ]_vars

\* C39, amended: as stated, except that reset() also ends a completed
\* quiz: it discards the recorded answers and leaves no quiz active, so
\* that answerQuestion goes on throwing until startQuiz
C39_AnswersFixedOnceCompleted ==
    [][ /\ AnswersGuarded
        /\ (session.isCompleted /\ shown'.op \notin {"startQuiz", "reset"}) =>
               /\ session'.userAnswers = session.userAnswers
               /\ session'.isCompleted
        /\ shown'.op = "reset" =>
               /\ session'.currentQuiz = 0
               /\ session'.userAnswers = <<>>
               /\ ~session'.isCompleted ]_vars

\* answerQuestion threw on a completed quiz of two questions of which one
\* had been answered
C39_Witness ==
    /\ shown = Thrown("answerQuestion", "No active quiz")
    /\ session.isCompleted
    /\ session.currentQuiz = 2
    /\ session.userAnswers = <<"right", "none">>
    /\ session.currentQuestionIndex = 1

\* C40: completeQuiz returns score = the number of questions whose recorded
\* answer is the correct one, a question without an answer not being
\* counted, so 0 <= score <= totalQuestions; percentage is an integer
\* nearest to 100 * score / totalQuestions (at most a half away from it);
\* and passed is true exactly when percentage >= the quiz's passingScore
C40_ResultOfCompleteQuiz ==
    (shown.op = "completeQuiz" /\ session.currentQuiz # 0) =>
        LET result == shown.returned
            totalQuestions == session.currentQuiz
            right == {q \in 1..totalQuestions : session.userAnswers[q] = "right"}
        IN  /\ result.score = Cardinality(right)
            /\ result.score \in 0..totalQuestions
            /\ result.totalQuestions = totalQuestions
            /\ result.percentage \in 0..100
            /\ 2 * totalQuestions * result.percentage
                   >= 200 * result.score - totalQuestions
            /\ 2 * totalQuestions * result.percentage
                   <= 200 * result.score + totalQuestions
            /\ result.passed <=> result.percentage >= session.passingScore

\* a quiz of 40 questions with 23 right, some wrong and some unanswered,
\* and a passing score of 58: 57 percent, not passed
C40_Witness ==
    /\ shown.op = "completeQuiz"
    /\ session.currentQuiz = 40
    /\ session.passingScore = 58
    /\ shown.returned.score = 23
    /\ session.userAnswers[24] = "wrong"
    /\ session.userAnswers[40] = "none"
    /\ shown.returned.percentage = 57
    /\ ~shown.returned.passed

====
